---- MODULE Spec2Model ----
(***************************************************************************)
(* Transfer manager of the OpsBot backend: the SFTP transfer commands      *)
(* (commands/sftp.rs) over the SftpService tables (services/               *)
(* sftp_service.rs).  Every await point of a command is a step boundary;   *)
(* a map operation under its RwLock guard is one atomic step.              *)
(*                                                                         *)
(* File contents are kept as sequences of extents <<src, lo, hi>>: the     *)
(* bytes lo..hi-1 of the byte source src ("L" is the local file, "X" is    *)
(* foreign data that differs from it, "0" is a hole of zero bytes).        *)
(* Adjacent extents of one source are merged, so two contents are equal    *)
(* exactly when they describe the same bytes.                              *)
(***************************************************************************)
EXTENDS Integers, Sequences, FiniteSets, TLC

\* ------------------------------------------------------------- bounds
MaxTasks == 2        \* upload/download invocations (one fresh task id each)
MaxCancels == 1      \* sftp_cancel_transfer invocations
MaxInFlight == 1     \* upload/download invocations running at the same time
MaxConnects == 2     \* ssh_connect invocations (one fresh session id each)
MaxChunks == 2       \* inbound chunks a session's channel receives
MaxOpens == 2        \* sftp_open invocations
MaxEntries == 3      \* entries of the directory that list_dir reads
MaxPassword == 2     \* bytes of a password
MaxReconnects == 2   \* ssh_reconnect invocations (one connect_with_* call each)

\* ---------------------------------------------------- program constants
CHUNK_SIZE == 65536

TaskIds == 1..MaxTasks
CancelIds == 1..MaxCancels
SessionIds == {"s1"}
\* One slot per connect_with_* call: those of ssh_connect and the one each
\* ssh_reconnect makes.
ConnIds == 1..(MaxConnects + MaxReconnects)
RecIds == 1..MaxReconnects
OpenIds == 1..MaxOpens

\* Sizes of the local file the uploads read (one is chosen at start).
LocalSizes == {73728}

Min(a, b) == IF a < b THEN a ELSE b

\* ------------------------------------------------------ file contents
RECURSIVE Size(_)
Size(c) == IF c = <<>> THEN 0 ELSE (c[1][3] - c[1][2]) + Size(Tail(c))

\* c followed by the extent e, merged with c's last extent when contiguous.
AppendExt(c, e) ==
    IF e[2] >= e[3] THEN c
    ELSE IF c # <<>> /\ c[Len(c)][1] = e[1] /\ c[Len(c)][3] = e[2]
         THEN [c EXCEPT ![Len(c)] = <<e[1], c[Len(c)][2], e[3]>>]
         ELSE Append(c, e)

RECURSIVE Concat(_, _)
Concat(c, d) == IF d = <<>> THEN c ELSE Concat(AppendExt(c, d[1]), Tail(d))

\* The first k bytes of c.
RECURSIVE Prefix(_, _)
Prefix(c, k) ==
    IF k <= 0 \/ c = <<>> THEN <<>>
    ELSE LET n == c[1][3] - c[1][2] IN
         IF n >= k THEN << <<c[1][1], c[1][2], c[1][2] + k>> >>
         ELSE <<c[1]>> \o Prefix(Tail(c), k - n)

\* c without its first k bytes.
RECURSIVE Drop(_, _)
Drop(c, k) ==
    IF c = <<>> THEN <<>>
    ELSE IF k <= 0 THEN c
    ELSE LET n == c[1][3] - c[1][2] IN
         IF n <= k THEN Drop(Tail(c), k - n)
         ELSE << <<c[1][1], c[1][2] + k, c[1][3]>> >> \o Tail(c)

\* c with the extent e written at byte offset off (a write past the end
\* leaves a hole of zero bytes).
WriteAt(c, off, e) ==
    LET n == e[3] - e[2]
        head == IF Size(c) >= off THEN Prefix(c, off)
                ELSE AppendExt(c, <<"0", Size(c), off>>)
    IN  Concat(AppendExt(head, e), Drop(c, off + n))

\* data[lo..hi) of the local file read by sftp_upload.
LocalBytes(lo, hi) == <<"L", lo, hi>>
LocalFile(total) == AppendExt(<<>>, LocalBytes(0, total))


\* --------------------------------------------------------------- state
VARIABLES
    sessions,       \* SftpService.sessions: ids that have an SFTP wrapper
    transfers,      \* SftpService.transfers: task id -> TransferTask
    cancel_tokens,  \* SftpService.cancel_tokens: ids with a token entry
    cancelled,      \* task ids whose CancellationToken has been cancelled
    remote,         \* the remote path: [kind, content]
    local_size,     \* length of the local file
    cmd,            \* upload/download invocation -> its locals and position
                    \* (chunks counts the progress_callback calls so far)
    cancel,         \* sftp_cancel_transfer invocation -> [pc, task_id]
    spawned,        \* tokio::spawn'ed update_transfer calls not yet run
    events,         \* task id -> TransferProgress payloads emitted, in order
    disturbed,      \* history: uploads whose remote file another command wrote
    wrapper,        \* SftpService.sessions: id -> the channel its wrapper holds
    ssh_sessions,   \* SshService.sessions: session id -> SshSession
    conn,           \* ssh_connect / connect_with_* invocation -> locals, position
    dis,            \* ssh_disconnect invocation -> locals, position
    rec,            \* ssh_reconnect invocation -> locals, position
    opn,            \* sftp_open invocation -> locals, position
    snd,            \* ssh_send_data invocation -> locals, position
    req,            \* the last SFTP request made and its result
    senders,        \* connect invocation -> holders of a clone of its data_tx
    queue,          \* connect invocation -> chunks buffered in its mpsc queue
    received,       \* history: session -> inbound chunks given to a handler
    ssh_events,     \* connect invocation -> events its forwarding task emitted
    crypto          \* the last encrypt and decrypt calls: inputs and results

\* The state of the SSH side (SshService, the SSH commands, sftp_open).
sshvars == <<ssh_sessions, conn, dis, rec, opn, snd, req, senders, queue, received,
             ssh_events>>

vars == <<sessions, transfers, cancel_tokens, cancelled, remote, local_size,
          cmd, cancel, spawned, events, disturbed, wrapper, sshvars, crypto>>

Terminal == {"Completed", "Failed", "Cancelled"}

IdleCmd == [pc |-> "idle", op |-> "none", session_id |-> "", resume |-> FALSE,
            total_size |-> 0, start_offset |-> 0, written |-> 0,
            chunks |-> 0, result |-> "none"]

\* ------------------------------------------------- SftpService methods
\* create_transfer_task, first half: the Pending task is inserted.
NewTask(session_id, direction, total) ==
    [session_id |-> session_id, direction |-> direction, total |-> total,
     transferred |-> 0, status |-> "Pending"]

\* update_transfer: transferred and status are overwritten when the task is
\* present (speed, a wall-clock sample, is not modelled).
update_transfer(tbl, task_id, transferred, status) ==
    IF task_id \in DOMAIN tbl
    THEN [tbl EXCEPT ![task_id].transferred = transferred,
                     ![task_id].status = status]
    ELSE tbl

\* cancel_transfer, second half: the status is set when the task is present.
mark_cancelled(tbl, task_id) ==
    IF task_id \in DOMAIN tbl
    THEN [tbl EXCEPT ![task_id].status = "Cancelled"]
    ELSE tbl

\* get_transfers: the tasks of one session.
get_transfers(session_id) ==
    {t \in DOMAIN transfers : transfers[t].session_id = session_id}

\* Variant of Retained: Failed tasks are swept with the other finished ones.
Retained_unfinished(tbl, session_id) ==
    {t \in DOMAIN tbl : tbl[t].session_id # session_id
                        \/ tbl[t].status \notin {"Completed", "Cancelled", "Failed"}}

\* cleanup_transfers: what retain keeps.
Retained(tbl, session_id) ==
    {t \in DOMAIN tbl : tbl[t].session_id # session_id
                        \/ tbl[t].status \notin {"Completed", "Cancelled"}}

\* get_remote_file_size: the size of a regular file, 0 for anything else.
get_remote_file_size(session_id, stat_ok) ==
    IF stat_ok /\ session_id \in sessions /\ remote.kind = "file"
    THEN Size(remote.content) ELSE 0

\* Mutant of StartOffset: a remote file as long as the local one is resumed.
StartOffset_le(resume, remote_size, total_size) ==
    IF resume
    THEN IF remote_size > 0 /\ remote_size <= total_size THEN remote_size ELSE 0
    ELSE 0

\* sftp_upload: where the upload starts.
StartOffset(resume, remote_size, total_size) ==
    IF resume
    THEN IF remote_size > 0 /\ remote_size < total_size THEN remote_size ELSE 0
    ELSE 0

\* data_to_write.chunks(chunk_size): length of the chunk that starts at written.
ChunkLen(written, total_size, chunk_size) == Min(chunk_size, total_size - written)

\* TransferProgress payload.
Progress(transferred, total, status) ==
    [transferred |-> transferred, total |-> total, status |-> status]

Emit(task_id, payload) == [events EXCEPT ![task_id] = Append(@, payload)]

\* Variant of HoldsSessionsRead: the guard is kept until the token is
\* removed.
HoldsSessionsRead_wide(p) ==
    cmd[p].op = "upload" /\ cmd[p].pc \in {"open", "check", "write", "sync", "rmtoken"}

\* The read guard on sessions is held by write_file_chunked_resume from the
\* lookup of the wrapper until it returns.
HoldsSessionsRead(p) == cmd[p].op = "upload" /\ cmd[p].pc \in {"open", "check", "write", "sync"}

\* Uploads between their size query and their return.
InFlight(p) ==
    cmd[p].op = "upload"
    /\ cmd[p].pc \in {"create", "token", "inprogress", "lookup",
                      "open", "check", "write", "sync", "rmtoken", "final"}

Others(p) == {q \in TaskIds \ {p} : InFlight(q)}

\* HashMap::new(), insert and retain on the task table.
EmptyTable == [t \in {} |-> NewTask("", "", 0)]
Insert(tbl, id, task) == [t \in DOMAIN tbl \cup {id} |-> IF t = id THEN task ELSE tbl[t]]
Restrict(tbl, keep) == [t \in keep |-> tbl[t]]

\* What the remote path may hold at the start.
RemoteInit ==
    {[kind |-> "none", content |-> <<>>],
     [kind |-> "dir", content |-> <<>>]}
    \cup {[kind |-> "file", content |-> << <<"X", 0, r>> >>] : r \in {8192, 300000}}

\* SshService::new(): an empty registry; no command has been invoked.
NoRequest == [auth_type |-> "", jump_host |-> FALSE, credential |-> FALSE]
IdleConn == [pc |-> "idle", request |-> NoRequest, transport |-> "none",
             forwarder |-> "none", via |-> 0, error |-> "none"]
NoSession == [status |-> "Connecting", handle |-> FALSE, channel |-> FALSE,
              tx |-> FALSE, connect_request |-> NoRequest]
IdleDis == [pc |-> "idle", session_id |-> "", session |-> NoSession,
            result |-> "none"]
IdleRec == [pc |-> "idle", session_id |-> "", connect_request |-> NoRequest,
            slot |-> 0, result |-> "none"]
IdleOpn == [pc |-> "idle", session_id |-> "", result |-> "none"]
IdleSnd == [pc |-> "idle", session_id |-> "", result |-> "none"]
NoReq == [op |-> "none", session_id |-> "", result |-> "none"]

\* No encrypt or decrypt call has been made.
NoCrypto == [plaintext |-> <<>>, password |-> <<>>, encrypted |-> <<"none">>,
             password2 |-> <<>>, decrypted |-> <<"none">>]

SshInit ==
    /\ wrapper = <<>>
    /\ crypto = NoCrypto
    /\ ssh_sessions = <<>>
    /\ conn = [i \in ConnIds |-> IdleConn]
    /\ dis = IdleDis
    /\ rec = [r \in RecIds |-> IF r = 1 THEN IdleRec
                                ELSE [IdleRec EXCEPT !.pc = "unused"]]
    /\ opn = [o \in OpenIds |-> IdleOpn]
    /\ snd = IdleSnd
    /\ req = NoReq
    /\ senders = [i \in ConnIds |-> {}]
    /\ queue = [i \in ConnIds |-> <<>>]
    /\ received = [i \in ConnIds |-> <<>>]
    /\ ssh_events = [i \in ConnIds |-> <<>>]

Init ==
    /\ SshInit
    /\ sessions = {}
    /\ transfers = EmptyTable
    /\ cancel_tokens = {}
    /\ cancelled = {}
    /\ remote \in RemoteInit
    /\ local_size \in LocalSizes
    /\ cmd = [p \in TaskIds |-> IdleCmd]
    /\ cancel = [c \in CancelIds |-> [pc |-> "idle", task_id |-> 0]]
    /\ spawned = {}
    /\ events = [t \in TaskIds |-> <<>>]
    /\ disturbed = {}


\* ---------------------------------------------------------- sftp_upload
Running == {q \in TaskIds : cmd[q].pc \notin {"idle", "done", "unused"}}

\* Invocations take the slots in order (the slot number stands for the fresh
\* Uuid of the task), at most MaxInFlight of them at a time.
MayStart(p) ==
    /\ cmd[p].pc = "idle"
    /\ \A q \in TaskIds : q < p => cmd[q].pc # "idle"
    /\ Cardinality(Running) < MaxInFlight

\* tokio::fs::read(local_path), then the resume test.  A failed read returns
\* before a task exists and changes nothing.
sftp_upload_read(p) ==
    /\ MayStart(p)
    /\ \E s \in SessionIds, r \in BOOLEAN :
         cmd' = [cmd EXCEPT ![p] = [IdleCmd EXCEPT
                    !.pc = IF r THEN "size" ELSE "create",
                    !.op = "upload", !.session_id = s, !.resume = r,
                    !.total_size = local_size]]
    /\ UNCHANGED <<sessions, transfers, cancel_tokens, cancelled, remote,
                   local_size, cancel, spawned, events, disturbed>>
    /\ UNCHANGED <<wrapper, sshvars, crypto>>

\* get_remote_file_size(session_id, remote_path) and the choice of start_offset.
sftp_upload_size(p) ==
    /\ cmd[p].op = "upload" /\ cmd[p].pc = "size"
    /\ \E stat_ok \in BOOLEAN :
         LET remote_size == get_remote_file_size(cmd[p].session_id, stat_ok)
         IN  cmd' = [cmd EXCEPT ![p].pc = "create",
                        ![p].start_offset =
                            StartOffset(cmd[p].resume, remote_size, cmd[p].total_size)]
    /\ UNCHANGED <<sessions, transfers, cancel_tokens, cancelled, remote,
                   local_size, cancel, spawned, events, disturbed>>
    /\ UNCHANGED <<wrapper, sshvars, crypto>>

\* create_transfer_task: self.transfers.write().await.insert(task_id, task).
create_transfer_task_insert(p) ==
    /\ cmd[p].pc = "create"
    /\ transfers' = Insert(transfers, p,
                           NewTask(cmd[p].session_id,
                                   IF cmd[p].op = "upload" THEN "Upload" ELSE "Download",
                                   cmd[p].total_size))
    /\ cmd' = [cmd EXCEPT ![p].pc = "token"]
    /\ UNCHANGED <<sessions, cancel_tokens, cancelled, remote, local_size,
                   cancel, spawned, events, disturbed>>
    /\ UNCHANGED <<wrapper, sshvars, crypto>>

\* create_transfer_task: self.cancel_tokens.write().await.insert(task_id, token).
create_transfer_task_token(p) ==
    /\ cmd[p].pc = "token"
    /\ cancel_tokens' = cancel_tokens \cup {p}
    /\ cmd' = [cmd EXCEPT ![p].pc = "inprogress"]
    /\ UNCHANGED <<sessions, transfers, cancelled, remote, local_size,
                   cancel, spawned, events, disturbed>>
    /\ UNCHANGED <<wrapper, sshvars, crypto>>

\* update_transfer(&task_id, start_offset, 0, InProgress); emit initial progress.
sftp_upload_inprogress(p) ==
    /\ cmd[p].op = "upload" /\ cmd[p].pc = "inprogress"
    /\ transfers' = update_transfer(transfers, p, cmd[p].start_offset, "InProgress")
    /\ events' = Emit(p, Progress(cmd[p].start_offset, cmd[p].total_size, "InProgress"))
    /\ cmd' = [cmd EXCEPT ![p].pc = "lookup"]
    /\ UNCHANGED <<sessions, cancel_tokens, cancelled, remote, local_size,
                   cancel, spawned, disturbed>>
    /\ UNCHANGED <<wrapper, sshvars, crypto>>

\* write_file_chunked_resume: sessions.read().await and the wrapper lookup.
write_file_chunked_resume_lookup(p) ==
    /\ cmd[p].op = "upload" /\ cmd[p].pc = "lookup"
    /\ cmd' = IF cmd[p].session_id \in sessions
              THEN [cmd EXCEPT ![p].pc = "open"]
              ELSE [cmd EXCEPT ![p].pc = "rmtoken", ![p].result = "err"]
    /\ UNCHANGED <<sessions, transfers, cancel_tokens, cancelled, remote,
                   local_size, cancel, spawned, events, disturbed>>
    /\ UNCHANGED <<wrapper, sshvars, crypto>>

\* The remote file after sftp.create(path): created or truncated.
Created == [kind |-> "file", content |-> <<>>]

\* write_file_chunked_resume: the file is opened WRITE|APPEND when
\* start_offset > 0 (it must exist) and created fresh otherwise.
OpenAppend(start_offset) == start_offset > 0

write_file_chunked_resume_open(p) ==
    /\ cmd[p].op = "upload" /\ cmd[p].pc = "open"
    /\ \E io_ok \in BOOLEAN :
         LET append == OpenAppend(cmd[p].start_offset)
             ok == /\ io_ok
                   /\ IF append THEN remote.kind = "file" ELSE remote.kind # "dir"
         IN  /\ cmd' = IF ok
                       THEN [cmd EXCEPT ![p].pc = "check",
                                        ![p].written = cmd[p].start_offset]
                       ELSE [cmd EXCEPT ![p].pc = "rmtoken", ![p].result = "err"]
             /\ remote' = IF ok /\ ~append THEN Created ELSE remote
             /\ disturbed' = IF ok /\ ~append /\ remote # Created
                             THEN disturbed \cup Others(p) ELSE disturbed
    /\ UNCHANGED <<sessions, transfers, cancel_tokens, cancelled, local_size,
                   cancel, spawned, events>>
    /\ UNCHANGED <<wrapper, sshvars, crypto>>


\* Mutant of DataToWrite: the whole of data is written again.
DataToWrite_all(total_size, start_offset) == <<0, total_size>>

\* let data_to_write = &data[start_offset as usize..]: the local bytes
\* <<lo, hi>> the chunk loop goes through.
DataToWrite(total_size, start_offset) == <<start_offset, total_size>>

\* Bytes of data_to_write the loop has consumed when `written` is reached.
Consumed(c) == c.written - c.start_offset

Remaining(c) ==
    LET d == DataToWrite(c.total_size, c.start_offset)
    IN  (d[2] - d[1]) - Consumed(c)

\* Mutant of is_cancelled: the loop polls a token nobody cancels.
is_cancelled_fresh(task_id) == FALSE

\* cancel_token.is_cancelled()
is_cancelled(task_id) == task_id \in cancelled

\* for chunk in data_to_write.chunks(chunk_size): the iterator ends, or the
\* token is polled before the chunk is written.
write_file_chunked_resume_check(p) ==
    /\ cmd[p].op = "upload" /\ cmd[p].pc = "check"
    /\ cmd' = IF Remaining(cmd[p]) <= 0
              THEN [cmd EXCEPT ![p].pc = "sync"]
              ELSE IF is_cancelled(p)
                   THEN [cmd EXCEPT ![p].pc = "rmtoken", ![p].result = "cancelled"]
                   ELSE [cmd EXCEPT ![p].pc = "write"]
    /\ UNCHANGED <<sessions, transfers, cancel_tokens, cancelled, remote,
                   local_size, cancel, spawned, events, disturbed>>
    /\ UNCHANGED <<wrapper, sshvars, crypto>>

\* The local bytes of the chunk the loop is at.
Chunk(c) ==
    LET d == DataToWrite(c.total_size, c.start_offset)
        lo == d[1] + Consumed(c)
    IN  LocalBytes(lo, lo + ChunkLen(0, Remaining(c), CHUNK_SIZE))

\* file.write_all(chunk) on the handle: at the end of the file when it was
\* opened for append, at the handle's position otherwise.
WriteAll(content, c) ==
    IF OpenAppend(c.start_offset)
    THEN AppendExt(content, Chunk(c))
    ELSE WriteAt(content, Consumed(c), Chunk(c))

\* file.write_all(chunk).await?; written += chunk.len(); progress_callback(written).
\* The callback, when 100 ms have passed since the last emit (due), spawns an
\* update_transfer(task_id, transferred, speed, InProgress) and emits an event.
write_file_chunked_resume_write(p) ==
    /\ cmd[p].op = "upload" /\ cmd[p].pc = "write"
    /\ \E io_ok \in BOOLEAN, due \in BOOLEAN :
         LET c == cmd[p]
             n == Chunk(c)[3] - Chunk(c)[2]
             w == c.written + n
         IN  IF io_ok
             THEN /\ remote' = [remote EXCEPT !.content = WriteAll(@, c)]
                  /\ cmd' = [cmd EXCEPT ![p].pc = "check", ![p].written = w,
                                         ![p].chunks = @ + 1]
                  /\ spawned' = IF due THEN spawned \cup {<<p, w>>} ELSE spawned
                  /\ events' = IF due
                               THEN Emit(p, Progress(w, c.total_size, "InProgress"))
                               ELSE events
                  /\ disturbed' = disturbed \cup Others(p)
             ELSE /\ ~due
                  /\ cmd' = [cmd EXCEPT ![p].pc = "rmtoken", ![p].result = "err"]
                  /\ UNCHANGED <<remote, spawned, events, disturbed>>
    /\ UNCHANGED <<sessions, transfers, cancel_tokens, cancelled, local_size, cancel>>
    /\ UNCHANGED <<wrapper, sshvars, crypto>>

\* file.sync_all().await?; Ok(true)
write_file_chunked_resume_sync(p) ==
    /\ cmd[p].op = "upload" /\ cmd[p].pc = "sync"
    /\ \E io_ok \in BOOLEAN :
         cmd' = [cmd EXCEPT ![p].pc = "rmtoken",
                            ![p].result = IF io_ok THEN "ok" ELSE "err"]
    /\ UNCHANGED <<sessions, transfers, cancel_tokens, cancelled, remote,
                   local_size, cancel, spawned, events, disturbed>>
    /\ UNCHANGED <<wrapper, sshvars, crypto>>

\* The spawned task of the progress callback runs its update_transfer.
spawned_update ==
    \E u \in spawned :
        /\ transfers' = update_transfer(transfers, u[1], u[2], "InProgress")
        /\ spawned' = spawned \ {u}
        /\ UNCHANGED <<sessions, cancel_tokens, cancelled, remote, local_size,
                       cmd, cancel, events, disturbed>>
    /\ UNCHANGED <<wrapper, sshvars, crypto>>

\* sftp_service.remove_cancel_token(&task_id) after the chunked write returned.
sftp_upload_remove_token(p) ==
    /\ cmd[p].op = "upload" /\ cmd[p].pc = "rmtoken"
    /\ cancel_tokens' = cancel_tokens \ {p}
    /\ cmd' = [cmd EXCEPT ![p].pc = "final"]
    /\ UNCHANGED <<sessions, transfers, cancelled, remote, local_size,
                   cancel, spawned, events, disturbed>>
    /\ UNCHANGED <<wrapper, sshvars, crypto>>

\* match result: what the final update_transfer and the final event carry.
FinalStatus(result) ==
    CASE result = "ok" -> "Completed"
      [] result = "cancelled" -> "Cancelled"
      [] OTHER -> "Failed"

FinalTransferred(result, total_size) == IF result = "ok" THEN total_size ELSE 0

\* The final update_transfer, the final event, and the return.
sftp_upload_final(p) ==
    /\ cmd[p].op = "upload" /\ cmd[p].pc = "final"
    /\ transfers' = update_transfer(transfers, p,
                                    FinalTransferred(cmd[p].result, cmd[p].total_size),
                                    FinalStatus(cmd[p].result))
    /\ events' = Emit(p, Progress(FinalTransferred(cmd[p].result, cmd[p].total_size),
                                  cmd[p].total_size, FinalStatus(cmd[p].result)))
    /\ cmd' = [cmd EXCEPT ![p].pc = "done"]
    /\ UNCHANGED <<sessions, cancel_tokens, cancelled, remote, local_size,
                   cancel, spawned, disturbed>>
    /\ UNCHANGED <<wrapper, sshvars, crypto>>


\* -------------------------------------------------------- sftp_download
\* stat(session_id, remote_path) for the size.  A failed stat (no wrapper,
\* no such path) returns before a task exists and changes nothing.
sftp_download_stat(p) ==
    /\ MayStart(p)
    /\ remote.kind # "none"
    /\ \E s \in sessions :
         cmd' = [cmd EXCEPT ![p] = [IdleCmd EXCEPT
                    !.pc = "create", !.op = "download", !.session_id = s,
                    !.total_size = Size(remote.content)]]
    /\ UNCHANGED <<sessions, transfers, cancel_tokens, cancelled, remote,
                   local_size, cancel, spawned, events, disturbed>>
    /\ UNCHANGED <<wrapper, sshvars, crypto>>

\* update_transfer(&task_id, 0, 0, InProgress); emit initial progress.
sftp_download_inprogress(p) ==
    /\ cmd[p].op = "download" /\ cmd[p].pc = "inprogress"
    /\ transfers' = update_transfer(transfers, p, 0, "InProgress")
    /\ events' = Emit(p, Progress(0, cmd[p].total_size, "InProgress"))
    /\ cmd' = [cmd EXCEPT ![p].pc = "read"]
    /\ UNCHANGED <<sessions, cancel_tokens, cancelled, remote, local_size,
                   cancel, spawned, disturbed>>
    /\ UNCHANGED <<wrapper, sshvars, crypto>>

\* sftp_service.read_file(&session_id, &remote_path).
sftp_download_read(p) ==
    /\ cmd[p].op = "download" /\ cmd[p].pc = "read"
    /\ \E io_ok \in BOOLEAN :
         LET ok == io_ok /\ cmd[p].session_id \in sessions /\ remote.kind = "file"
         IN  cmd' = [cmd EXCEPT ![p].pc = IF ok THEN "local" ELSE "readfail"]
    /\ UNCHANGED <<sessions, transfers, cancel_tokens, cancelled, remote,
                   local_size, cancel, spawned, events, disturbed>>
    /\ UNCHANGED <<wrapper, sshvars, crypto>>

\* Err(e) of read_file: update_transfer(&task_id, 0, 0, Failed) ...
sftp_download_read_failed(p) ==
    /\ cmd[p].op = "download" /\ cmd[p].pc = "readfail"
    /\ transfers' = update_transfer(transfers, p, 0, "Failed")
    /\ cmd' = [cmd EXCEPT ![p].pc = "readfail_rm"]
    /\ UNCHANGED <<sessions, cancel_tokens, cancelled, remote, local_size,
                   cancel, spawned, events, disturbed>>
    /\ UNCHANGED <<wrapper, sshvars, crypto>>

\* ... remove_cancel_token(&task_id); return Err.
sftp_download_read_failed_return(p) ==
    /\ cmd[p].op = "download" /\ cmd[p].pc = "readfail_rm"
    /\ cancel_tokens' = cancel_tokens \ {p}
    /\ cmd' = [cmd EXCEPT ![p].pc = "done", ![p].result = "err"]
    /\ UNCHANGED <<sessions, transfers, cancelled, remote, local_size,
                   cancel, spawned, events, disturbed>>
    /\ UNCHANGED <<wrapper, sshvars, crypto>>

\* create_dir_all, File::create, write_all, flush on the local path: each
\* failure returns through `?`.
sftp_download_local(p) ==
    /\ cmd[p].op = "download" /\ cmd[p].pc = "local"
    /\ \E fs_ok \in BOOLEAN :
         cmd' = IF fs_ok
                THEN [cmd EXCEPT ![p].pc = "rmtoken"]
                ELSE [cmd EXCEPT ![p].pc = "done", ![p].result = "err"]
    /\ UNCHANGED <<sessions, transfers, cancel_tokens, cancelled, remote,
                   local_size, cancel, spawned, events, disturbed>>
    /\ UNCHANGED <<wrapper, sshvars, crypto>>

sftp_download_remove_token(p) ==
    /\ cmd[p].op = "download" /\ cmd[p].pc = "rmtoken"
    /\ cancel_tokens' = cancel_tokens \ {p}
    /\ cmd' = [cmd EXCEPT ![p].pc = "final"]
    /\ UNCHANGED <<sessions, transfers, cancelled, remote, local_size,
                   cancel, spawned, events, disturbed>>
    /\ UNCHANGED <<wrapper, sshvars, crypto>>

\* update_transfer(&task_id, total_size, 0, Completed); emit completion; Ok(task_id).
sftp_download_completed(p) ==
    /\ cmd[p].op = "download" /\ cmd[p].pc = "final"
    /\ transfers' = update_transfer(transfers, p, cmd[p].total_size, "Completed")
    /\ events' = Emit(p, Progress(cmd[p].total_size, cmd[p].total_size, "Completed"))
    /\ cmd' = [cmd EXCEPT ![p].pc = "done", ![p].result = "ok"]
    /\ UNCHANGED <<sessions, cancel_tokens, cancelled, remote, local_size,
                   cancel, spawned, disturbed>>
    /\ UNCHANGED <<wrapper, sshvars, crypto>>

\* ------------------------------------------------- sftp_cancel_transfer
\* cancel_transfer: the token, if the table holds one, is cancelled.
cancel_transfer_token(c) ==
    /\ cancel[c].pc = "idle"
    /\ \A d \in CancelIds : d < c => cancel[d].pc # "idle"
    /\ \E t \in TaskIds :
         /\ cancelled' = IF t \in cancel_tokens THEN cancelled \cup {t} ELSE cancelled
         /\ cancel' = [cancel EXCEPT ![c] = [pc |-> "status", task_id |-> t]]
    /\ UNCHANGED <<sessions, transfers, cancel_tokens, remote, local_size,
                   cmd, spawned, events, disturbed>>
    /\ UNCHANGED <<wrapper, sshvars, crypto>>

\* cancel_transfer: task.status = Cancelled; then the command emits its
\* cancellation event (transferred 0, total 0) and returns.
cancel_transfer_status(c) ==
    /\ cancel[c].pc = "status"
    /\ transfers' = mark_cancelled(transfers, cancel[c].task_id)
    /\ events' = Emit(cancel[c].task_id, Progress(0, 0, "Cancelled"))
    /\ cancel' = [cancel EXCEPT ![c].pc = "done"]
    /\ UNCHANGED <<sessions, cancel_tokens, cancelled, remote, local_size,
                   cmd, spawned, disturbed>>
    /\ UNCHANGED <<wrapper, sshvars, crypto>>

\* ------------------------------------------------ the other commands
sftp_cleanup_transfers(s) ==
    /\ transfers' = Restrict(transfers, Retained(transfers, s))
    /\ UNCHANGED <<sessions, cancel_tokens, cancelled, remote, local_size,
                   cmd, cancel, spawned, events, disturbed>>
    /\ UNCHANGED <<wrapper, sshvars, crypto>>

\* sessions.write() waits for every read guard.
SessionsWritable == \A p \in TaskIds : ~HoldsSessionsRead(p)

\* sftp_open: a wrapper is stored unless one exists.
sftp_open(s) ==
    /\ s \notin sessions
    /\ SessionsWritable
    /\ sessions' = sessions \cup {s}
    /\ wrapper' = Insert(wrapper, s, 0)
    /\ UNCHANGED <<transfers, cancel_tokens, cancelled, remote, local_size,
                   cmd, cancel, spawned, events, disturbed>>
    /\ UNCHANGED <<sshvars, crypto>>

\* sftp_close: the wrapper is removed.
sftp_close(s) ==
    /\ s \in sessions
    /\ SessionsWritable
    /\ sessions' = sessions \ {s}
    /\ wrapper' = Restrict(wrapper, sessions \ {s})
    /\ UNCHANGED <<transfers, cancel_tokens, cancelled, remote, local_size,
                   cmd, cancel, spawned, events, disturbed>>
    /\ UNCHANGED <<sshvars, crypto>>

\* ================================================================
\* SshService (services/ssh_service.rs) and the SSH commands
\* ================================================================

\* SshSession::new: session_id = Uuid::new_v4().  The i-th invocation of
\* connect_with_* draws the i-th name.
SessionNames == <<"s1", "s2", "s3", "s4", "s5", "s6", "s7", "s8">>
SessionName(i) == SessionNames[i]
SshIds == {SessionName(i) : i \in ConnIds}
ConnOf(s) == CHOOSE i \in ConnIds : SessionName(i) = s

\* SshConnectRequest: the fields the code branches on (credential: the
\* password of auth_type "password", the private key of auth_type "key", is
\* Some).  The well-formed requests made: a direct connection with a
\* password, a connection through a jump host with a key.
Requests == {[auth_type |-> "password", jump_host |-> FALSE, credential |-> TRUE],
             [auth_type |-> "key", jump_host |-> TRUE, credential |-> TRUE]}

\* Every request a caller may send: any auth_type string, with or without
\* the credential.
AllRequests == [auth_type : {"password", "key", "agent"},
                jump_host : BOOLEAN, credential : BOOLEAN]

\* How the awaits of connect_with_* between the credential check and the
\* store may end: all succeed ("ok"), or the named one fails first
\* ("rejected": authenticate returned Ok(false)).
HandshakeOutcomes == {"ok", "connect", "authenticate", "rejected",
                      "channel_open_session", "request_pty", "request_shell"}

\* Variant of StoredSession: the session is stored as SshSession::new made
\* it, but for the handle.
StoredSession_new(request) ==
    [status |-> "Connecting", handle |-> TRUE, channel |-> FALSE, tx |-> FALSE,
     connect_request |-> request]

\* The session as connect_with_* stores it (lines 185-188, 266-269, 396-399).
StoredSession(request) ==
    [status |-> "Connected", handle |-> TRUE, channel |-> TRUE, tx |-> TRUE,
     connect_request |-> request]

\* Variant of is_connected: an absent entry counts as connected.
is_connected_absent(session_id) ==
    IF session_id \in DOMAIN ssh_sessions
    THEN ssh_sessions[session_id].status = "Connected"
    ELSE TRUE

\* is_connected: the entry exists and its status is Connected.
is_connected(session_id) ==
    IF session_id \in DOMAIN ssh_sessions
    THEN ssh_sessions[session_id].status = "Connected"
    ELSE FALSE

\* The guards of SshService.sessions (a tokio RwLock): disconnect keeps the
\* write guard until it returns; send_data and open_sftp_channel keep a read
\* guard while their channel request is in flight.
SshWriteHeld == dis.pc \in {"close_channel", "close_handle"}
SshReadHeld == snd.pc = "io" \/ \E o \in OpenIds : opn[o].pc = "opening"
SshReadable == ~SshWriteHeld

\* Variant of SshWritable: the write guard is given while read guards are
\* held.
SshWritable_free == ~SshWriteHeld
SshWritable == ~SshWriteHeld /\ ~SshReadHeld

\* The command that called connect_with_* for slot i returns `result`:
\* ssh_connect to the frontend, ssh_reconnect through rec.
Returned(i, result) ==
    IF conn[i].via = 0 THEN rec
    ELSE [rec EXCEPT ![conn[i].via] = [@ EXCEPT !.pc = "done",
                                                !.result = result]]

\* ssh_connect(request): mpsc::unbounded(), match request.auth_type; then
\* connect_with_password / _key up to its first network await.  An
\* auth_type other than "password" and "key", or a missing credential,
\* returns Err at once (the queue is dropped).  Otherwise the sender is
\* held by the call.
connect(i, request) ==
    /\ conn[i].pc = "idle"
    /\ \A j \in ConnIds : j < i => conn[j].pc # "idle"
    /\ Cardinality({j \in ConnIds : /\ conn[j].pc \notin {"idle", "unused"}
                                    /\ conn[j].via = 0}) < MaxConnects
    /\ IF request.auth_type \notin {"password", "key"}
       THEN /\ conn' = [conn EXCEPT ![i] =
                          [IdleConn EXCEPT !.pc = "failed", !.request = request,
                               !.error = "Unsupported authentication type"]]
            /\ UNCHANGED senders
       ELSE IF ~request.credential
       THEN /\ conn' = [conn EXCEPT ![i] =
                          [IdleConn EXCEPT !.pc = "failed", !.request = request,
                               !.error = IF request.auth_type = "password"
                                         THEN "Password is required"
                                         ELSE "Private key is required"]]
            /\ UNCHANGED senders
       ELSE /\ conn' = [conn EXCEPT ![i] =
                          [IdleConn EXCEPT !.pc = "connecting",
                                           !.request = request]]
            /\ senders' = [senders EXCEPT ![i] = {"call"}]
    /\ UNCHANGED <<ssh_sessions, dis, rec, opn, snd, req, queue, received,
                   ssh_events>>
    /\ UNCHANGED <<sessions, transfers, cancel_tokens, cancelled, remote,
                   local_size, cmd, cancel, spawned, events, disturbed, wrapper, crypto>>

\* ssh_connect with a well-formed request.
ssh_connect(i) == \E request \in Requests : connect(i, request)

\* ssh_connect with any request.
ssh_connect_any(i) == \E request \in AllRequests : connect(i, request)

\* Variant of HandshakeNext: the call goes on to the store whatever the
\* outcome.
HandshakeNext_store(outcome) == "store"

\* Where connect_with_* goes after its awaits: on to the store, or out
\* with Err (`?`, or the return of "... authentication failed").
HandshakeNext(outcome) == IF outcome = "ok" THEN "store" ELSE "failed"

\* client::connect, authenticate, channel_open_session, request_pty and
\* request_shell (or exec on the jump host).  Once client::connect has
\* succeeded the transport runs with its handler: the handler of a direct
\* connection holds a clone of data_tx, the handler of a jump host holds
\* dummy_tx.  On failure the call returns: the handle (the transport), the
\* sender and, back in the command, the receiver are dropped.
handshake(i, outcome) ==
    /\ conn[i].pc = "connecting"
    /\ IF outcome = "ok"
       THEN /\ conn' = [conn EXCEPT ![i].pc = HandshakeNext(outcome),
                                    ![i].transport = "up"]
            /\ senders' = [senders EXCEPT ![i] =
                              IF conn[i].request.jump_host THEN @
                              ELSE @ \cup {"handler"}]
            /\ UNCHANGED rec
       ELSE /\ conn' = [conn EXCEPT ![i].pc = HandshakeNext(outcome),
                                    ![i].error = outcome]
            /\ senders' = [senders EXCEPT ![i] = {}]
            /\ rec' = Returned(i, "connect failed")
    /\ UNCHANGED <<ssh_sessions, dis, opn, snd, req, queue, received, ssh_events>>
    /\ UNCHANGED <<sessions, transfers, cancel_tokens, cancelled, remote,
                   local_size, cmd, cancel, spawned, events, disturbed, wrapper, crypto>>

\* The handshake succeeds or the transport connect fails.
connect_handshake(i) == \E outcome \in {"ok", "connect"} : handshake(i, outcome)

\* The handshake ends in any of its outcomes.
connect_handshake_any(i) == \E outcome \in HandshakeOutcomes : handshake(i, outcome)

\* session.handle / channel / tx = Some(..), status = Connected, then
\* self.sessions.write().await.insert(session_id, session).
connect_insert(i) ==
    /\ conn[i].pc = "store"
    /\ SshWritable
    /\ ssh_sessions' = Insert(ssh_sessions, SessionName(i),
                              StoredSession(conn[i].request))
    /\ senders' = [senders EXCEPT ![i] = (@ \ {"call"}) \cup {"session"}]
    /\ conn' = [conn EXCEPT ![i].pc = "spawn"]
    /\ UNCHANGED <<dis, rec, opn, snd, req, queue, received, ssh_events>>
    /\ UNCHANGED <<sessions, transfers, cancel_tokens, cancelled, remote,
                   local_size, cmd, cancel, spawned, events, disturbed, wrapper, crypto>>

\* ssh_connect / ssh_reconnect: tokio::spawn of the forwarding task, Ok(id).
ssh_connect_spawn(i) ==
    /\ conn[i].pc = "spawn"
    /\ conn' = [conn EXCEPT ![i].pc = "done", ![i].forwarder = "running"]
    /\ rec' = Returned(i, SessionName(i))
    /\ UNCHANGED <<ssh_sessions, dis, opn, snd, req, senders, queue, received,
                   ssh_events>>
    /\ UNCHANGED <<sessions, transfers, cancel_tokens, cancelled, remote,
                   local_size, cmd, cancel, spawned, events, disturbed, wrapper, crypto>>

\* Handler::data / extended_data: let _ = self.data_tx.unbounded_send(data).
\* The chunks of a channel are numbered in receipt order.  The handler of a
\* jump host sends to dummy_tx, whose receiver nobody reads.
handler_data(i) ==
    /\ conn[i].transport = "up"
    /\ Len(received[i]) < MaxChunks
    /\ LET chunk == Len(received[i]) + 1 IN
         /\ received' = [received EXCEPT ![i] = Append(@, chunk)]
         /\ queue' = IF conn[i].request.jump_host THEN queue
                     ELSE [queue EXCEPT ![i] = Append(@, chunk)]
    /\ UNCHANGED <<ssh_sessions, conn, dis, rec, opn, snd, req, senders,
                   ssh_events>>
    /\ UNCHANGED <<sessions, transfers, cancel_tokens, cancelled, remote,
                   local_size, cmd, cancel, spawned, events, disturbed, wrapper, crypto>>

\* The channel or the transport ends (remote close, transport error): the
\* client task finishes and drops its handler.
transport_end(i) ==
    /\ conn[i].transport = "up"
    /\ conn' = [conn EXCEPT ![i].transport = "down"]
    /\ senders' = [senders EXCEPT ![i] = @ \ {"handler"}]
    /\ UNCHANGED <<ssh_sessions, dis, rec, opn, snd, req, queue, received,
                   ssh_events>>
    /\ UNCHANGED <<sessions, transfers, cancel_tokens, cancelled, remote,
                   local_size, cmd, cancel, spawned, events, disturbed, wrapper, crypto>>

\* The forwarding task: while let Some(data) = rx.next().await { emit data }.
forward_data(i) ==
    /\ conn[i].forwarder = "running"
    /\ queue[i] # <<>>
    /\ ssh_events' = [ssh_events EXCEPT ![i] = Append(@, <<"data", Head(queue[i])>>)]
    /\ queue' = [queue EXCEPT ![i] = Tail(@)]
    /\ UNCHANGED <<ssh_sessions, conn, dis, rec, opn, snd, req, senders, received>>
    /\ UNCHANGED <<sessions, transfers, cancel_tokens, cancelled, remote,
                   local_size, cmd, cancel, spawned, events, disturbed, wrapper, crypto>>

\* rx.next() yields None once the queue is empty and every sender is
\* dropped: the task emits "disconnected" and ends.
forward_end(i) ==
    /\ conn[i].forwarder = "running"
    /\ queue[i] = <<>>
    /\ senders[i] = {}
    /\ ssh_events' = [ssh_events EXCEPT ![i] = Append(@, <<"status", "disconnected">>)]
    /\ conn' = [conn EXCEPT ![i].forwarder = "ended"]
    /\ UNCHANGED <<ssh_sessions, dis, rec, opn, snd, req, senders, queue, received>>
    /\ UNCHANGED <<sessions, transfers, cancel_tokens, cancelled, remote,
                   local_size, cmd, cancel, spawned, events, disturbed, wrapper, crypto>>

\* Variant of Remove: the registry is emptied.
Remove_all(tbl, id) == Restrict(tbl, {})

\* sessions.remove(session_id) in disconnect and reconnect.
Remove(tbl, id) == Restrict(tbl, DOMAIN tbl \ {id})

\* disconnect: sessions.write().await, sessions.remove(session_id); for an
\* entry found: status = Disconnected, channel.take(), channel.close() is
\* awaited.  For no entry: Ok(()).
disconnect_remove(s) ==
    /\ dis.pc \in {"idle", "done"}
    /\ SshWritable
    /\ IF s \in DOMAIN ssh_sessions
       THEN /\ ssh_sessions' = Remove(ssh_sessions, s)
            /\ dis' = [pc |-> "close_channel", session_id |-> s,
                       session |-> [ssh_sessions[s] EXCEPT
                                       !.status = "Disconnected",
                                       !.channel = FALSE],
                       result |-> "none"]
       ELSE /\ dis' = [pc |-> "done", session_id |-> s, session |-> NoSession,
                       result |-> "ok"]
            /\ UNCHANGED ssh_sessions
    /\ UNCHANGED <<conn, rec, opn, snd, req, senders, queue, received, ssh_events>>
    /\ UNCHANGED <<sessions, transfers, cancel_tokens, cancelled, remote,
                   local_size, cmd, cancel, spawned, events, disturbed, wrapper, crypto>>

\* disconnect: channel.close() has returned; handle.take(),
\* handle.disconnect(ByApplication, ..) is awaited.
disconnect_close_channel ==
    /\ dis.pc = "close_channel"
    /\ dis' = [dis EXCEPT !.pc = "close_handle", !.session.handle = FALSE]
    /\ UNCHANGED <<ssh_sessions, conn, rec, opn, snd, req, senders, queue,
                   received, ssh_events>>
    /\ UNCHANGED <<sessions, transfers, cancel_tokens, cancelled, remote,
                   local_size, cmd, cancel, spawned, events, disturbed, wrapper, crypto>>

\* disconnect: handle.disconnect() has returned and the transport is closed
\* (its handler is dropped); Ok(()) drops the session, with its tx, and the
\* write guard.
disconnect_close_handle ==
    /\ dis.pc = "close_handle"
    /\ dis' = [dis EXCEPT !.pc = "done", !.session.tx = FALSE, !.result = "ok"]
    /\ LET i == ConnOf(dis.session_id) IN
         /\ conn' = [conn EXCEPT ![i].transport = "down"]
         /\ senders' = [senders EXCEPT ![i] = @ \ {"handler", "session"}]
    /\ UNCHANGED <<ssh_sessions, rec, opn, snd, req, queue, received, ssh_events>>
    /\ UNCHANGED <<sessions, transfers, cancel_tokens, cancelled, remote,
                   local_size, cmd, cancel, spawned, events, disturbed, wrapper, crypto>>

\* reconnect: sessions.read().await, the stored connect_request is cloned;
\* Err("Session not found") for no entry.
reconnect_lookup(r, s) ==
    /\ rec[r].pc = "idle"
    /\ SshReadable
    /\ rec' = [rec EXCEPT ![r] =
              IF s \in DOMAIN ssh_sessions
              THEN [IdleRec EXCEPT !.pc = "remove", !.session_id = s,
                        !.connect_request = ssh_sessions[s].connect_request]
              ELSE [IdleRec EXCEPT !.pc = "done", !.session_id = s,
                                   !.result = "Session not found"]]
    /\ UNCHANGED <<ssh_sessions, conn, dis, opn, snd, req, senders, queue,
                   received, ssh_events>>
    /\ UNCHANGED <<sessions, transfers, cancel_tokens, cancelled, remote,
                   local_size, cmd, cancel, spawned, events, disturbed, wrapper, crypto>>

\* Variant of reconnect_remove: the old entry stays in the registry.
reconnect_remove_keep(r) ==
    /\ rec[r].pc = "remove"
    /\ SshWritable
    /\ \E i \in ConnIds :
         /\ conn[i].pc = "idle"
         /\ \A j \in ConnIds : j < i => conn[j].pc # "idle"
         /\ ssh_sessions' = ssh_sessions
         /\ conn' = [conn EXCEPT ![i] = [IdleConn EXCEPT !.pc = "connecting",
                                            !.request = rec[r].connect_request,
                                            !.via = r]]
         /\ senders' = [senders EXCEPT
                           ![ConnOf(rec[r].session_id)] =
                               IF rec[r].session_id \in DOMAIN ssh_sessions
                               THEN @ \ {"session"} ELSE @,
                           ![i] = {"call"}]
         /\ rec' = [rec EXCEPT ![r] = [@ EXCEPT !.pc = "connect", !.slot = i]]
    /\ UNCHANGED <<dis, opn, snd, req, queue, received, ssh_events>>
    /\ UNCHANGED <<sessions, transfers, cancel_tokens, cancelled, remote,
                   local_size, cmd, cancel, spawned, events, disturbed, wrapper, crypto>>

\* reconnect: sessions.write().await.remove(session_id) drops the old
\* session with its tx; then connect_with_password / _key is called with the
\* cloned request and runs up to its first network await.
reconnect_remove(r) ==
    /\ rec[r].pc = "remove"
    /\ SshWritable
    /\ \E i \in ConnIds :
         /\ conn[i].pc = "idle"
         /\ \A j \in ConnIds : j < i => conn[j].pc # "idle"
         /\ ssh_sessions' = Remove(ssh_sessions, rec[r].session_id)
         /\ conn' = [conn EXCEPT ![i] = [IdleConn EXCEPT !.pc = "connecting",
                                            !.request = rec[r].connect_request,
                                            !.via = r]]
         /\ senders' = [senders EXCEPT
                           ![ConnOf(rec[r].session_id)] =
                               IF rec[r].session_id \in DOMAIN ssh_sessions
                               THEN @ \ {"session"} ELSE @,
                           ![i] = {"call"}]
         /\ rec' = [rec EXCEPT ![r] = [@ EXCEPT !.pc = "connect", !.slot = i]]
    /\ UNCHANGED <<dis, opn, snd, req, queue, received, ssh_events>>
    /\ UNCHANGED <<sessions, transfers, cancel_tokens, cancelled, remote,
                   local_size, cmd, cancel, spawned, events, disturbed, wrapper, crypto>>

\* send_data: sessions.read().await and the lookup; the read guard is kept
\* while channel.data(data) is awaited.
send_data_lookup(s) ==
    /\ snd.pc = "idle"
    /\ SshReadable
    /\ snd' = IF s \in DOMAIN ssh_sessions
              THEN [IdleSnd EXCEPT !.pc = "io", !.session_id = s]
              ELSE [IdleSnd EXCEPT !.pc = "done", !.session_id = s,
                                   !.result = "Session not found"]
    /\ UNCHANGED <<ssh_sessions, conn, dis, rec, opn, req, senders, queue,
                   received, ssh_events>>
    /\ UNCHANGED <<sessions, transfers, cancel_tokens, cancelled, remote,
                   local_size, cmd, cancel, spawned, events, disturbed, wrapper, crypto>>

\* send_data: channel.data(data) has returned.
send_data_io ==
    /\ snd.pc = "io"
    /\ \E ok \in BOOLEAN :
         snd' = [snd EXCEPT !.pc = "done",
                            !.result = IF ok /\ conn[ConnOf(snd.session_id)].transport = "up"
                                       THEN "ok" ELSE "io error"]
    /\ UNCHANGED <<ssh_sessions, conn, dis, rec, opn, req, senders, queue,
                   received, ssh_events>>
    /\ UNCHANGED <<sessions, transfers, cancel_tokens, cancelled, remote,
                   local_size, cmd, cancel, spawned, events, disturbed, wrapper, crypto>>

\* ------------------------------------------------------------ sftp_open
\* sftp_open: has_sftp_session(session_id); Ok(()) when a wrapper exists.
sftp_open_has_session(o, s) ==
    /\ opn[o].pc = "idle"
    /\ \A q \in OpenIds : q < o => opn[q].pc # "idle"
    /\ opn' = [opn EXCEPT ![o] =
                  IF s \in sessions
                  THEN [pc |-> "done", session_id |-> s, result |-> "ok"]
                  ELSE [pc |-> "channel", session_id |-> s, result |-> "none"]]
    /\ UNCHANGED <<ssh_sessions, conn, dis, rec, snd, req, senders, queue,
                   received, ssh_events>>
    /\ UNCHANGED <<sessions, transfers, cancel_tokens, cancelled, remote,
                   local_size, cmd, cancel, spawned, events, disturbed, wrapper, crypto>>

\* open_sftp_channel: the lookup in the SSH registry and its checks; the
\* read guard is kept while handle.channel_open_session() is awaited.
open_sftp_channel(o) ==
    /\ opn[o].pc = "channel"
    /\ SshReadable
    /\ LET s == opn[o].session_id IN
       opn' = [opn EXCEPT ![o] =
                  IF s \notin DOMAIN ssh_sessions
                  THEN [@ EXCEPT !.pc = "done", !.result = "Session not found"]
                  ELSE IF ssh_sessions[s].status # "Connected"
                  THEN [@ EXCEPT !.pc = "done", !.result = "Session not connected"]
                  ELSE IF ~ssh_sessions[s].handle
                  THEN [@ EXCEPT !.pc = "done", !.result = "No handle available"]
                  ELSE [@ EXCEPT !.pc = "opening"]]
    /\ UNCHANGED <<ssh_sessions, conn, dis, rec, snd, req, senders, queue,
                   received, ssh_events>>
    /\ UNCHANGED <<sessions, transfers, cancel_tokens, cancelled, remote,
                   local_size, cmd, cancel, spawned, events, disturbed, wrapper, crypto>>

\* open_sftp_channel: channel_open_session() has returned (the read guard is
\* dropped); open_sftp awaits request_subsystem, SftpSession::new and
\* canonicalize.
open_sftp_channel_opened(o) ==
    /\ opn[o].pc = "opening"
    /\ \E ok \in BOOLEAN :
         opn' = [opn EXCEPT ![o] =
                    IF ok /\ conn[ConnOf(opn[o].session_id)].transport = "up"
                    THEN [@ EXCEPT !.pc = "insert"]
                    ELSE [@ EXCEPT !.pc = "done", !.result = "io error"]]
    /\ UNCHANGED <<ssh_sessions, conn, dis, rec, snd, req, senders, queue,
                   received, ssh_events>>
    /\ UNCHANGED <<sessions, transfers, cancel_tokens, cancelled, remote,
                   local_size, cmd, cancel, spawned, events, disturbed, wrapper, crypto>>

\* open_sftp: the subsystem is up; self.sessions.write().await.insert(
\* session_id, wrapper): HashMap::insert replaces the value of a present key.
open_sftp_insert(o) ==
    /\ opn[o].pc = "insert"
    /\ SessionsWritable
    /\ \E ok \in BOOLEAN :
         IF ok
         THEN /\ sessions' = sessions \cup {opn[o].session_id}
              /\ wrapper' = Insert(wrapper, opn[o].session_id, o)
              /\ opn' = [opn EXCEPT ![o].pc = "done", ![o].result = "ok"]
         ELSE /\ opn' = [opn EXCEPT ![o].pc = "done", ![o].result = "io error"]
              /\ UNCHANGED <<sessions, wrapper>>
    /\ UNCHANGED <<ssh_sessions, conn, dis, rec, snd, req, senders, queue,
                   received, ssh_events>>
    /\ UNCHANGED <<transfers, cancel_tokens, cancelled, remote,
                   local_size, cmd, cancel, spawned, events, disturbed, crypto>>

\* ------------------------------------------- the SFTP file operations
\* The methods of SftpService that start with the wrapper lookup
\* sessions.get(session_id).ok_or_else(|| anyhow!("SFTP session not found")).
SftpOps == {"list_dir", "get_current_path", "canonicalize", "mkdir",
            "remove_file", "remove_dir", "rename", "read_file", "write_file",
            "write_file_chunked_resume", "stat"}

\* Variant of WrapperLookup: a missing wrapper is passed over, as
\* get_remote_file_size passes over a failed stat.
WrapperLookup_lenient(tbl, session_id, io_result) ==
    IF session_id \in tbl THEN io_result ELSE "ok"

\* The wrapper lookup: the error of a missing wrapper, or what the request
\* to the server then gives.
WrapperLookup(tbl, session_id, io_result) ==
    IF session_id \in tbl THEN io_result ELSE "SFTP session not found"

\* One SFTP file operation, from its call to its return.
sftp_request(op, s) ==
    /\ \E io_result \in {"ok", "io error"} :
         req' = [op |-> op, session_id |-> s,
                 result |-> WrapperLookup(sessions, s, io_result)]
    /\ UNCHANGED <<ssh_sessions, conn, dis, rec, opn, snd, senders, queue,
                   received, ssh_events>>
    /\ UNCHANGED <<sessions, transfers, cancel_tokens, cancelled, remote,
                   local_size, cmd, cancel, spawned, events, disturbed, wrapper, crypto>>

\* ------------------------------------------------------------ list_dir
\* A name is the sequence of its bytes (ASCII).  The names a directory may
\* hold: "A", "a", "B", "_" and "ab".
Names == {<<65>>, <<97>>, <<66>>, <<95>>, <<97, 98>>}

\* What read_dir may report for a directory: at most MaxEntries entries with
\* different names, in the order the server chooses.
DirEntries == [name : Names, is_dir : BOOLEAN]
Reports ==
    {order \in UNION {[1..n -> DirEntries] : n \in 0..MaxEntries} :
        \A j, k \in DOMAIN order : j # k => order[j].name # order[k].name}

\* str::to_lowercase, on ASCII.
to_lowercase(name) ==
    [k \in DOMAIN name |-> IF name[k] \in 65..90 THEN name[k] + 32 ELSE name[k]]

\* Ord for str: the byte-wise lexicographic order.
RECURSIVE str_cmp(_, _)
str_cmp(a, b) ==
    IF a = <<>> /\ b = <<>> THEN "Equal"
    ELSE IF a = <<>> THEN "Less"
    ELSE IF b = <<>> THEN "Greater"
    ELSE IF Head(a) < Head(b) THEN "Less"
    ELSE IF Head(a) > Head(b) THEN "Greater"
    ELSE str_cmp(Tail(a), Tail(b))

\* The closure given to files.sort_by.
compare(a, b) ==
    IF a.is_dir /\ ~b.is_dir THEN "Less"
    ELSE IF ~a.is_dir /\ b.is_dir THEN "Greater"
    ELSE str_cmp(to_lowercase(a.name), to_lowercase(b.name))

\* slice::sort_by is a stable sort: entries that compare Equal keep the
\* order they had.  Computed by insertion from the left, each entry going
\* before the first entry that compares Greater than it.
InsertStable(sorted, e) ==
    LET greater == {k \in DOMAIN sorted : compare(sorted[k], e) = "Greater"}
        at == IF greater = {} THEN Len(sorted) + 1
              ELSE CHOOSE k \in greater : \A j \in greater : k <= j
    IN SubSeq(sorted, 1, at - 1) \o <<e>> \o SubSeq(sorted, at, Len(sorted))

RECURSIVE sort_by(_)
sort_by(files) ==
    IF files = <<>> THEN <<>>
    ELSE InsertStable(sort_by(SubSeq(files, 1, Len(files) - 1)), files[Len(files)])

\* list_dir: the wrapper lookup, read_dir, the entries pushed in the order
\* reported, the sort.  The directory is remote.content, in the order the
\* server reports it.
list_dir(s) ==
    /\ remote.kind = "dir"
    /\ \E io_ok \in BOOLEAN :
         req' = [op |-> "list_dir", session_id |-> s,
                 result |-> WrapperLookup(sessions, s,
                               IF io_ok THEN sort_by(remote.content)
                               ELSE "io error")]
    /\ UNCHANGED <<ssh_sessions, conn, dis, rec, opn, snd, senders, queue,
                   received, ssh_events>>
    /\ UNCHANGED <<sessions, transfers, cancel_tokens, cancelled, remote,
                   local_size, cmd, cancel, spawned, events, disturbed, wrapper, crypto>>

\* ------------------------------------------------------- CryptoService
\* Strings are the sequences of their bytes.  The passwords tried: at most
\* MaxPassword bytes out of NUL and "a".  The plaintexts: "" and "x".
Passwords == UNION {[1..n -> {0, 97}] : n \in 0..MaxPassword}
Plaintexts == {<<>>, <<120>>}

\* What SystemRandom::fill may give for the salt and for the nonce.
Salts == {"salt1", "salt2"}
Nonces == {"nonce1", "nonce2"}

\* Result values.
Ok(v) == <<"Ok", v>>
Err(e) == <<"Err", e>>

\* The block length of SHA-256, in bytes.
HMAC_BLOCK == 64

\* hmac::Key::new(HMAC_SHA256, secret), as pbkdf2::derive builds it (RFC
\* 2104): a secret longer than the block is replaced by its digest, then
\* the secret is padded with zero bytes to the block length.
hmac_key(secret) ==
    IF Len(secret) > HMAC_BLOCK THEN <<"sha256", secret>>
    ELSE secret \o [k \in 1..(HMAC_BLOCK - Len(secret)) |-> 0]

\* derive_key: PBKDF2-HMAC-SHA256 of the password and the salt.  The key
\* is a function of the HMAC key, the salt and the iteration count, taken
\* to be one-to-one in them.
derive_key(password, salt) ==
    [hmac |-> hmac_key(password), salt |-> salt, iterations |-> 100000]

\* AES-256-GCM, seal_in_place_append_tag and open_in_place: the sealed
\* text opens, to the plaintext, under the key and nonce that sealed it, and
\* under no other.
seal(key, nonce, plaintext) == [key |-> key, nonce |-> nonce, plaintext |-> plaintext]
open(key, nonce, sealed) ==
    IF sealed.key = key /\ sealed.nonce = nonce
    THEN Ok(sealed.plaintext) ELSE Err("Unspecified")

\* BASE64.encode / decode of magic, salt, nonce and sealed text.
encode(magic, salt, nonce, sealed) ==
    <<"base64", [magic |-> magic, salt |-> salt, nonce |-> nonce, sealed |-> sealed]>>
decode(encrypted) == encrypted[2]

\* CryptoService::encrypt: Err(RandomFailed) when the generator fails.
encrypt_result(plaintext, password, random) ==
    IF random = "failed" THEN Err("RandomFailed")
    ELSE Ok(encode("ZWDCFG01", random[1], random[2],
                   seal(derive_key(password, random[1]), random[2], plaintext)))

\* CryptoService::decrypt of a text that decodes: the magic header is
\* checked, the key derived from the password and the stored salt, the
\* sealed text opened; a text that does not open is Err(InvalidPassword).
decrypt_result(encrypted, password) ==
    LET data == decode(encrypted) IN
    IF data.magic # "ZWDCFG01" THEN Err("InvalidFormat")
    ELSE LET opened == open(derive_key(password, data.salt), data.nonce, data.sealed)
         IN IF opened[1] = "Ok" THEN opened ELSE Err("InvalidPassword")

\* A call of encrypt(plaintext, password).
encrypt(plaintext, password) ==
    /\ \E random \in (Salts \X Nonces) \cup {"failed"} :
         crypto' = [NoCrypto EXCEPT !.plaintext = plaintext,
                        !.password = password,
                        !.encrypted = encrypt_result(plaintext, password, random)]
    /\ UNCHANGED <<sessions, transfers, cancel_tokens, cancelled, remote,
                   local_size, cmd, cancel, spawned, events, disturbed, wrapper,
                   sshvars>>

\* A call of decrypt on the text the last encrypt returned.
decrypt(password2) ==
    /\ crypto.encrypted[1] = "Ok"
    /\ crypto' = [crypto EXCEPT !.password2 = password2,
                      !.decrypted = decrypt_result(crypto.encrypted[2], password2)]
    /\ UNCHANGED <<sessions, transfers, cancel_tokens, cancelled, remote,
                   local_size, cmd, cancel, spawned, events, disturbed, wrapper,
                   sshvars>>

\* ------------------------------------------------------ registry locks
\* The four registries, each an Arc<RwLock<HashMap>>: SshService.sessions,
\* SftpService.sessions (the wrappers), .transfers and .cancel_tokens.
Locks == {"sessions", "wrappers", "tasks", "tokens"}

\* The guards an operation keeps while it is suspended at its position.
\* The guards of transfers and cancel_tokens are temporaries of one
\* statement and are kept across no suspension point.
UploadHolds(p) == IF HoldsSessionsRead(p) THEN {"wrappers"} ELSE {}
DisconnectHolds == IF SshWriteHeld THEN {"sessions"} ELSE {}
OpenHolds(o) == IF opn[o].pc = "opening" THEN {"sessions"} ELSE {}

\* The guard the next step of an operation acquires.
UploadAcquires(p) ==
    IF cmd[p].op # "upload" THEN {}
    ELSE CASE cmd[p].pc \in {"size", "lookup"} -> {"wrappers"}
           [] cmd[p].pc \in {"create", "inprogress", "final"} -> {"tasks"}
           [] cmd[p].pc \in {"token", "rmtoken"} -> {"tokens"}
           [] OTHER -> {}
CancelAcquires(c) ==
    CASE cancel[c].pc = "idle" -> {"tokens"}
      [] cancel[c].pc = "status" -> {"tasks"}
      [] OTHER -> {}
OpenAcquires(o) ==
    CASE opn[o].pc \in {"idle", "insert"} -> {"wrappers"}
      [] opn[o].pc = "channel" -> {"sessions"}
      [] OTHER -> {}
DisconnectAcquires == IF dis.pc \in {"idle", "done"} THEN {"sessions"} ELSE {}

\* ------------------------------------------------------- specification
Next ==
    \/ \E p \in TaskIds :
         \/ sftp_upload_read(p)
         \/ sftp_upload_size(p)
         \/ create_transfer_task_insert(p)
         \/ create_transfer_task_token(p)
         \/ sftp_upload_inprogress(p)
         \/ write_file_chunked_resume_lookup(p)
         \/ write_file_chunked_resume_open(p)
         \/ write_file_chunked_resume_check(p)
         \/ write_file_chunked_resume_write(p)
         \/ write_file_chunked_resume_sync(p)
         \/ sftp_upload_remove_token(p)
         \/ sftp_upload_final(p)
         \/ sftp_download_stat(p)
         \/ sftp_download_inprogress(p)
         \/ sftp_download_read(p)
         \/ sftp_download_read_failed(p)
         \/ sftp_download_read_failed_return(p)
         \/ sftp_download_local(p)
         \/ sftp_download_remove_token(p)
         \/ sftp_download_completed(p)
    \/ spawned_update
    \/ \E c \in CancelIds :
         \/ cancel_transfer_token(c)
         \/ cancel_transfer_status(c)
    \/ \E s \in SessionIds :
         \/ sftp_cleanup_transfers(s)
         \/ sftp_open(s)
         \/ sftp_close(s)

Spec == Init /\ [][Next]_vars

\* The 200 KiB scenario: one transfer command (the other slots are never
\* invoked), a local file of 204800 bytes, the remote path absent or holding
\* the first chunk of the local file.
InitScenario ==
    /\ SshInit
    /\ sessions = {}
    /\ transfers = EmptyTable
    /\ cancel_tokens = {}
    /\ cancelled = {}
    /\ remote \in {[kind |-> "none", content |-> <<>>],
                   [kind |-> "file", content |-> LocalFile(CHUNK_SIZE)]}
    /\ local_size = 204800
    /\ cmd = [p \in TaskIds |-> IF p = 1 THEN IdleCmd
                                ELSE [IdleCmd EXCEPT !.pc = "unused"]]
    /\ cancel = [c \in CancelIds |-> [pc |-> "idle", task_id |-> 0]]
    /\ spawned = {}
    /\ events = [t \in TaskIds |-> <<>>]
    /\ disturbed = {}

SpecScenario == InitScenario /\ [][Next]_vars

\* SftpService::cleanup_transfers(session_id), called on the service.
cleanup_transfers(s) ==
    /\ transfers' = Restrict(transfers, Retained(transfers, s))
    /\ req' = [op |-> "cleanup_transfers", session_id |-> s, result |-> "ok"]
    /\ UNCHANGED <<ssh_sessions, conn, dis, rec, opn, snd, senders, queue,
                   received, ssh_events>>
    /\ UNCHANGED <<sessions, cancel_tokens, cancelled, remote, local_size,
                   cmd, cancel, spawned, events, disturbed, wrapper, crypto>>

\* The service with a task table as transfer commands of two sessions leave
\* it: each task is Pending (its token not yet stored), InProgress (its
\* command in flight, holding a token) or finished.
ServiceSessions == {"s1", "s2"}
Statuses == {"Pending", "InProgress", "Completed", "Failed", "Cancelled"}
TaskRecords ==
    [session_id : ServiceSessions, direction : {"Upload"}, total : {0},
     transferred : {0}, status : Statuses]
Tables == UNION {[D -> TaskRecords] : D \in SUBSET TaskIds}

\* The command that created task t of table tbl, where it stands.
CommandOf(tbl, t) ==
    IF t \notin DOMAIN tbl THEN [IdleCmd EXCEPT !.pc = "unused"]
    ELSE [IdleCmd EXCEPT
             !.op = "upload", !.session_id = tbl[t].session_id,
             !.pc = CASE tbl[t].status = "Pending" -> "token"
                      [] tbl[t].status = "InProgress" -> "lookup"
                      [] OTHER -> "done",
             !.result = CASE tbl[t].status = "Completed" -> "ok"
                          [] tbl[t].status = "Failed" -> "err"
                          [] tbl[t].status = "Cancelled" -> "cancelled"
                          [] OTHER -> "none"]

InitService ==
    /\ SshInit
    /\ sessions = {}
    /\ transfers \in Tables
    /\ cancel_tokens = {t \in DOMAIN transfers : transfers[t].status = "InProgress"}
    /\ cancelled = {}
    /\ remote = [kind |-> "none", content |-> <<>>]
    /\ local_size = 0
    /\ cmd = [p \in TaskIds |-> CommandOf(transfers, p)]
    /\ cancel = [c \in CancelIds |-> [pc |-> "unused", task_id |-> 0]]
    /\ spawned = {}
    /\ events = [t \in TaskIds |-> <<>>]
    /\ disturbed = {}

NextService ==
    \E s \in ServiceSessions :
        \/ cleanup_transfers(s)
        \/ sftp_open(s)
        \/ sftp_close(s)
        \/ \E op \in SftpOps : sftp_request(op, s)

SpecService == InitService /\ [][NextService]_vars

\* The SSH side: no SFTP transfer command is invoked.
InitSsh ==
    /\ SshInit
    /\ sessions = {}
    /\ transfers = EmptyTable
    /\ cancel_tokens = {}
    /\ cancelled = {}
    /\ remote = [kind |-> "none", content |-> <<>>]
    /\ local_size = 0
    /\ cmd = [p \in TaskIds |-> [IdleCmd EXCEPT !.pc = "unused"]]
    /\ cancel = [c \in CancelIds |-> [pc |-> "unused", task_id |-> 0]]
    /\ spawned = {}
    /\ events = [t \in TaskIds |-> <<>>]
    /\ disturbed = {}

\* The session registry: sessions are connected, written to, reconnected
\* and disconnected.
NextSsh ==
    \/ \E i \in ConnIds :
         \/ ssh_connect(i)
         \/ connect_handshake(i)
         \/ connect_insert(i)
         \/ ssh_connect_spawn(i)
         \/ transport_end(i)
    \/ \E s \in SshIds :
         \/ disconnect_remove(s)
         \/ \E r \in RecIds : reconnect_lookup(r, s)
         \/ send_data_lookup(s)
    \/ disconnect_close_channel
    \/ disconnect_close_handle
    \/ \E r \in RecIds : reconnect_remove(r)
    \/ send_data_io

SpecSsh == InitSsh /\ [][NextSsh]_vars

\* SFTP wrappers are opened and closed on sessions that are connected and
\* disconnected, and one download is started on a wrapper (its task and its
\* token are created).
InitOpen ==
    /\ SshInit
    /\ sessions = {}
    /\ transfers = EmptyTable
    /\ cancel_tokens = {}
    /\ cancelled = {}
    /\ remote = [kind |-> "file", content |-> << <<"X", 0, CHUNK_SIZE>> >>]
    /\ local_size = 0
    /\ cmd = [p \in TaskIds |-> IF p = 1 THEN IdleCmd
                                ELSE [IdleCmd EXCEPT !.pc = "unused"]]
    /\ cancel = [c \in CancelIds |-> [pc |-> "unused", task_id |-> 0]]
    /\ spawned = {}
    /\ events = [t \in TaskIds |-> <<>>]
    /\ disturbed = {}

NextOpen ==
    \/ \E p \in TaskIds :
         \/ sftp_download_stat(p)
         \/ create_transfer_task_insert(p)
         \/ create_transfer_task_token(p)
    \/ \E i \in ConnIds :
         \/ ssh_connect(i)
         \/ connect_handshake(i)
         \/ connect_insert(i)
         \/ ssh_connect_spawn(i)
    \/ \E s \in SshIds :
         \/ disconnect_remove(s)
         \/ sftp_close(s)
    \/ disconnect_close_channel
    \/ disconnect_close_handle
    \/ \E o \in OpenIds :
         \/ \E s \in SshIds : sftp_open_has_session(o, s)
         \/ open_sftp_channel(o)
         \/ open_sftp_channel_opened(o)
         \/ open_sftp_insert(o)

SpecOpen == InitOpen /\ [][NextOpen]_vars

\* The data path of the sessions: inbound chunks, the queue, the forwarding
\* task, the end of the transport and disconnect.
NextStream ==
    \/ \E i \in ConnIds :
         \/ ssh_connect(i)
         \/ connect_handshake(i)
         \/ connect_insert(i)
         \/ ssh_connect_spawn(i)
         \/ handler_data(i)
         \/ transport_end(i)
         \/ forward_data(i)
         \/ forward_end(i)
    \/ \E s \in SshIds : disconnect_remove(s)
    \/ disconnect_close_channel
    \/ disconnect_close_handle

SpecStream == InitSsh /\ [][NextStream]_vars

\* Connects with any request and any outcome of the handshake, next to
\* disconnects.
NextConnect ==
    \/ \E i \in ConnIds :
         \/ ssh_connect_any(i)
         \/ connect_handshake_any(i)
         \/ connect_insert(i)
         \/ ssh_connect_spawn(i)
    \/ \E s \in SshIds : disconnect_remove(s)
    \/ disconnect_close_channel
    \/ disconnect_close_handle

SpecConnect == InitSsh /\ [][NextConnect]_vars

\* Listings: a wrapper is open on s1, the path is a directory that the
\* server reports in some order.
InitList ==
    /\ SshInit
    /\ sessions = {"s1"}
    /\ transfers = EmptyTable
    /\ cancel_tokens = {}
    /\ cancelled = {}
    /\ remote \in {[kind |-> "dir", content |-> order] : order \in Reports}
    /\ local_size = 0
    /\ cmd = [p \in TaskIds |-> [IdleCmd EXCEPT !.pc = "unused"]]
    /\ cancel = [c \in CancelIds |-> [pc |-> "unused", task_id |-> 0]]
    /\ spawned = {}
    /\ events = [t \in TaskIds |-> <<>>]
    /\ disturbed = {}

NextList == \E s \in ServiceSessions : list_dir(s)

SpecList == InitList /\ [][NextList]_vars

\* Texts are encrypted and decrypted, with the same and with other
\* passwords.
NextCrypto ==
    \/ \E plaintext \in Plaintexts, password \in Passwords :
         encrypt(plaintext, password)
    \/ \E password2 \in Passwords : decrypt(password2)

SpecCrypto == InitSsh /\ [][NextCrypto]_vars

\* The operations that take registry locks, one invocation of each: a
\* session is connected, an SFTP wrapper opened on it, a one-chunk file
\* uploaded and cancelled, the wrapper closed, the session disconnected.
InitLocks ==
    /\ wrapper = <<>>
    /\ crypto = NoCrypto
    /\ ssh_sessions = <<>>
    /\ conn = [i \in ConnIds |-> IF i = 1 THEN IdleConn
                                  ELSE [IdleConn EXCEPT !.pc = "unused"]]
    /\ dis = IdleDis
    /\ rec = [r \in RecIds |-> IF r = 1 THEN IdleRec
                                ELSE [IdleRec EXCEPT !.pc = "unused"]]
    /\ opn = [o \in OpenIds |-> IF o = 1 THEN IdleOpn
                                 ELSE [IdleOpn EXCEPT !.pc = "unused"]]
    /\ snd = IdleSnd
    /\ req = NoReq
    /\ senders = [i \in ConnIds |-> {}]
    /\ queue = [i \in ConnIds |-> <<>>]
    /\ received = [i \in ConnIds |-> <<>>]
    /\ ssh_events = [i \in ConnIds |-> <<>>]
    /\ sessions = {}
    /\ transfers = EmptyTable
    /\ cancel_tokens = {}
    /\ cancelled = {}
    /\ remote = [kind |-> "none", content |-> <<>>]
    /\ local_size = 8192
    /\ cmd = [p \in TaskIds |-> IF p = 1 THEN IdleCmd
                                ELSE [IdleCmd EXCEPT !.pc = "unused"]]
    /\ cancel = [c \in CancelIds |-> [pc |-> "idle", task_id |-> 0]]
    /\ spawned = {}
    /\ events = [t \in TaskIds |-> <<>>]
    /\ disturbed = {}

NextLocks ==
    \/ \E p \in TaskIds :
         \/ sftp_upload_read(p)
         \/ sftp_upload_size(p)
         \/ create_transfer_task_insert(p)
         \/ create_transfer_task_token(p)
         \/ sftp_upload_inprogress(p)
         \/ write_file_chunked_resume_lookup(p)
         \/ write_file_chunked_resume_open(p)
         \/ write_file_chunked_resume_check(p)
         \/ write_file_chunked_resume_write(p)
         \/ write_file_chunked_resume_sync(p)
         \/ sftp_upload_remove_token(p)
         \/ sftp_upload_final(p)
    \/ spawned_update
    \/ \E c \in CancelIds :
         \/ cancel_transfer_token(c)
         \/ cancel_transfer_status(c)
    \/ \E i \in ConnIds :
         \/ ssh_connect(i)
         \/ connect_handshake(i)
         \/ connect_insert(i)
         \/ ssh_connect_spawn(i)
    \/ \E s \in SshIds : disconnect_remove(s)
    \/ \E s \in SessionIds : sftp_close(s)
    \/ disconnect_close_channel
    \/ disconnect_close_handle
    \/ \E o \in OpenIds :
         \/ \E s \in SshIds : sftp_open_has_session(o, s)
         \/ open_sftp_channel(o)
         \/ open_sftp_channel_opened(o)
         \/ open_sftp_insert(o)

SpecLocks == InitLocks /\ [][NextLocks]_vars

\* Reconnect calls that may overlap: every ssh_reconnect invocation is free
\* to start at any time.
InitReconnect ==
    /\ wrapper = <<>>
    /\ crypto = NoCrypto
    /\ ssh_sessions = <<>>
    /\ conn = [i \in ConnIds |-> IdleConn]
    /\ dis = IdleDis
    /\ rec = [r \in RecIds |-> IdleRec]
    /\ opn = [o \in OpenIds |-> IdleOpn]
    /\ snd = IdleSnd
    /\ req = NoReq
    /\ senders = [i \in ConnIds |-> {}]
    /\ queue = [i \in ConnIds |-> <<>>]
    /\ received = [i \in ConnIds |-> <<>>]
    /\ ssh_events = [i \in ConnIds |-> <<>>]
    /\ sessions = {}
    /\ transfers = EmptyTable
    /\ cancel_tokens = {}
    /\ cancelled = {}
    /\ remote = [kind |-> "none", content |-> <<>>]
    /\ local_size = 0
    /\ cmd = [p \in TaskIds |-> [IdleCmd EXCEPT !.pc = "unused"]]
    /\ cancel = [c \in CancelIds |-> [pc |-> "unused", task_id |-> 0]]
    /\ spawned = {}
    /\ events = [t \in TaskIds |-> <<>>]
    /\ disturbed = {}

NextReconnect ==
    \/ \E i \in ConnIds :
         \/ ssh_connect(i)
         \/ connect_handshake(i)
         \/ connect_insert(i)
         \/ ssh_connect_spawn(i)
    \/ \E r \in RecIds :
         \/ \E s \in SshIds : reconnect_lookup(r, s)
         \/ reconnect_remove(r)

SpecReconnect == InitReconnect /\ [][NextReconnect]_vars


\* =================================================================
\* Claims
\* =================================================================

\* C1: once a task's status is Completed, Failed or Cancelled, no later step
\* changes it to a different status (removal by cleanup is not a change).
C1_TerminalIsFinal ==
    [][\A t \in DOMAIN transfers :
         (transfers[t].status \in Terminal /\ t \in DOMAIN transfers')
            => transfers'[t].status = transfers[t].status]_vars

\* The progress callback of upload t never found an emit due, so that it
\* spawned no update_transfer.
NoThrottled(t) ==
    \A i \in 2..Len(events[t]) : events[t][i].status # "InProgress"

\* C2: when cancel_transfer(t) found t's token in the table while upload t was
\* in flight, and the upload met no error, the status of t is Cancelled once
\* both commands have returned.  (Stated for uploads that spawned no progress
\* update, so that the late updates of C1 play no part in it.)
C2_CancelledAfterCancel ==
    \A c \in CancelIds, t \in TaskIds :
        ( /\ cancel[c].pc = "done" /\ cancel[c].task_id = t
          /\ t \in cancelled
          /\ cmd[t].op = "upload" /\ cmd[t].pc = "done" /\ cmd[t].result # "err"
          /\ NoThrottled(t)
          /\ t \in DOMAIN transfers )
        => transfers[t].status = "Cancelled"

\* C4: when an upload or download command that created a task has returned,
\* the token table holds no entry for that task.
C4_NoTokenAfterReturn ==
    \A p \in TaskIds : cmd[p].pc = "done" => p \notin cancel_tokens

\* C5: when an upload or download command has returned an error after it
\* created its task (and no cancel command named the task), get_transfers of
\* its session shows the task with status Failed.
C5_ErrorShowsFailed ==
    \A p \in TaskIds :
        ( /\ cmd[p].pc = "done" /\ cmd[p].result = "err"
          /\ \A c \in CancelIds : cancel[c].task_id # p )
        => /\ p \in get_transfers(cmd[p].session_id)
           /\ transfers[p].status = "Failed"


\* An upload that has returned Ok(task_id) after a completed write.
CompletedUpload(p) ==
    cmd[p].op = "upload" /\ cmd[p].pc = "done" /\ cmd[p].result = "ok"

NonDecreasing(evs) ==
    \A i \in 1..(Len(evs) - 1) : evs[i].transferred <= evs[i + 1].transferred

\* The events of a task that a cancel command did not emit: an upload that
\* completes emits InProgress and Completed payloads only.
NotCancelEvent(e) == e.status # "Cancelled"
OwnEvents(p) == SelectSeq(events[p], NotCancelEvent)

\* C3: for an upload that ends Completed, the transferred values of all events
\* of the task, those of cancel commands included, are non-decreasing and the
\* last event has transferred == total.
C3_AllEventsMonotone ==
    \A p \in TaskIds :
        CompletedUpload(p) =>
            /\ NonDecreasing(events[p])
            /\ events[p][Len(events[p])].transferred = cmd[p].total_size

\* The part of C3 that the upload command alone decides: for an upload that
\* ends Completed, the events the upload command itself emitted (initial,
\* throttled, final) are non-decreasing in transferred, and the last of them
\* is the Completed event with transferred == total.
C3_OwnEventsMonotone ==
    \A p \in TaskIds :
        CompletedUpload(p) =>
            LET own == OwnEvents(p) IN
            /\ NonDecreasing(own)
            /\ own # <<>>
            /\ own[1].transferred = cmd[p].start_offset
            /\ own[Len(own)].status = "Completed"
            /\ own[Len(own)].transferred = cmd[p].total_size

\* A completed upload with a throttled event and a cancel event.
C3_CancelEventReached ==
    \E p \in TaskIds :
        /\ CompletedUpload(p)
        /\ Len(OwnEvents(p)) >= 3
        /\ Len(events[p]) > Len(OwnEvents(p))

\* A resumed upload whose chunked write returned Ok(true).
ResumedOk(p) ==
    /\ cmd[p].op = "upload" /\ cmd[p].pc \in {"rmtoken", "final"}
    /\ cmd[p].result = "ok" /\ cmd[p].resume /\ cmd[p].start_offset > 0

\* C6 (as stated): after a resumed upload (0 < R < T) that is neither
\* cancelled nor failed, the remote file is byte-identical to the local file.
C6_ResumeIdentical ==
    \A p \in TaskIds : ResumedOk(p) => remote.content = LocalFile(cmd[p].total_size)

\* C6 (amended): a resumed upload that is neither cancelled nor failed, with
\* no other command writing the remote file meanwhile, appends exactly the
\* local bytes R..T-1 in order; the remote file is then byte-identical to the
\* local file provided the R bytes it held were the first R local bytes.
C6_ResumeAppendsTail ==
    \A p \in TaskIds :
        (ResumedOk(p) /\ p \notin disturbed) =>
            LET R == cmd[p].start_offset
                T == cmd[p].total_size
            IN  /\ Size(remote.content) = T
                /\ Drop(remote.content, R) = << LocalBytes(R, T) >>
                /\ (Prefix(remote.content, R) = LocalFile(R)
                        => remote.content = LocalFile(T))

\* C6 witness: a resumed upload has completed a partial copy of the local
\* file.
C6_Witness ==
    \E p \in TaskIds :
        /\ ResumedOk(p) /\ p \notin disturbed
        /\ remote.content = LocalFile(cmd[p].total_size)


\* The step is the size query of upload p.
SizeStep(p) == cmd[p].pc = "size" /\ cmd'[p].pc = "create"

\* The step is a successful open of the remote file by upload p.
OpenStep(p) == cmd[p].pc = "open" /\ cmd'[p].pc = "check"

\* The remote path holds a regular file that session s can stat.
Readable(s) == s \in sessions /\ remote.kind = "file"

\* C7: the start offset of an upload is the remote size R exactly when resume
\* was requested and 0 < R < T; it is 0 when resume was not requested, when
\* the remote path is missing, a directory or not readable, and when R = 0 or
\* R >= T; and the remote file is opened for append (left as it is) when the
\* offset is positive and created fresh (emptied) when it is 0.
C7_StartOffset ==
    [][\A p \in TaskIds :
        LET R == Size(remote.content)
            T == cmd[p].total_size
            S == cmd'[p].start_offset
        IN  /\ (cmd[p].pc = "idle" /\ cmd'[p].pc = "create" /\ cmd'[p].op = "upload")
                  => ~cmd'[p].resume /\ S = 0
            /\ SizeStep(p) =>
                  /\ cmd[p].resume
                  /\ S \in {0, R}
                  /\ S > 0 => (Readable(cmd[p].session_id) /\ 0 < R /\ R < T)
                  /\ (~Readable(cmd[p].session_id) \/ R = 0 \/ R >= T) => S = 0
            /\ OpenStep(p) =>
                  /\ S = cmd[p].start_offset
                  /\ cmd'[p].written = S
                  /\ S > 0 => remote' = remote
                  /\ S = 0 => remote' = Created
       ]_vars

\* C7 witness: a resume-requested upload has opened a shorter remote file for
\* append at its size.
C7_Witness ==
    \E p \in TaskIds :
        /\ cmd[p].op = "upload" /\ cmd[p].pc = "check" /\ cmd[p].resume
        /\ cmd[p].start_offset > 0
        /\ cmd[p].start_offset = Size(remote.content)
        /\ cmd[p].written = cmd[p].start_offset

\* The step is the poll of the token by upload p with a chunk left to write.
CheckStep(p) ==
    cmd[p].pc = "check" /\ cmd'[p] # cmd[p] /\ Remaining(cmd[p]) > 0

\* C9: the token is polled before every chunk write; a poll that finds it
\* cancelled writes no further chunk and returns Ok(false), not an error; the
\* bytes a cancelled upload has written are the start offset plus a whole
\* number of chunks (one chunk when the cancel lands after the first chunk
\* and before the second poll).
C9_ChunkGranularCancel ==
    [][\A p \in TaskIds :
        /\ (CheckStep(p) /\ p \in cancelled) =>
              /\ cmd'[p].pc = "rmtoken" /\ cmd'[p].result = "cancelled"
              /\ cmd'[p].written = cmd[p].written
              /\ remote' = remote
        /\ (cmd'[p].pc = "write" /\ cmd[p].pc # "write") =>
              cmd[p].pc = "check" /\ p \notin cancelled
        /\ cmd'[p].written # cmd[p].written =>
              cmd[p].pc \in {"open", "write"}
        /\ cmd'[p].result = "cancelled" =>
              /\ cmd'[p].written < cmd'[p].total_size
              /\ cmd'[p].written = cmd'[p].start_offset + cmd'[p].chunks * CHUNK_SIZE
              /\ cmd[p].result = "cancelled" => cmd'[p].written = cmd[p].written
       ]_vars

\* C9 witness: an upload from offset 0 returned Ok(false) with exactly one
\* chunk written to the remote file.
C9_Witness ==
    \E p \in TaskIds :
        /\ cmd[p].op = "upload" /\ cmd[p].pc = "rmtoken"
        /\ cmd[p].result = "cancelled"
        /\ cmd[p].start_offset = 0 /\ cmd[p].written = CHUNK_SIZE
        /\ remote.content = << LocalBytes(0, CHUNK_SIZE) >>


\* No cancel command named task t and no spawned update of t is pending.
Quiet(t) ==
    /\ \A c \in CancelIds : cancel[c].task_id # t
    /\ \A u \in spawned : u[1] # t

\* C8, first half: when an upload is cancelled mid-transfer (and no other
\* command wrote the remote file), the remote file holds every byte written
\* before the cancellation.
C8_PartialFileKept ==
    \A p \in TaskIds :
        ( /\ cmd[p].op = "upload" /\ cmd[p].pc \in {"rmtoken", "final"}
          /\ cmd[p].result = "cancelled"
          /\ cmd[p].written > cmd[p].start_offset
          /\ p \notin disturbed )
        => /\ Size(remote.content) = cmd[p].written
           /\ Drop(remote.content, cmd[p].start_offset)
                 = << LocalBytes(cmd[p].start_offset, cmd[p].written) >>

\* C8: after an upload is cancelled mid-transfer the remote file holds every
\* byte written before the cancellation, and a following upload of the same
\* paths with resume = true that is not cancelled and meets no I/O error ends
\* Completed with transferred == total.
C8_ResumeAfterCancel ==
    /\ C8_PartialFileKept
    /\ \A p \in TaskIds, q \in TaskIds :
        ( /\ p < q
          /\ cmd[p].op = "upload" /\ cmd[p].pc = "done"
          /\ cmd[p].result = "cancelled" /\ cmd[p].written > cmd[p].start_offset
          /\ CompletedUpload(q) /\ cmd[q].resume
          /\ Quiet(q) /\ q \in DOMAIN transfers )
        => /\ transfers[q].status = "Completed"
           /\ transfers[q].transferred = cmd[q].total_size

Ceil(a, b) == (a + b - 1) \div b

\* C10, the chunking: every chunk but the last has CHUNK_SIZE bytes, the
\* cumulative count passed to the callback never exceeds T, and an upload
\* that is neither cancelled nor failed makes ceil((T - S) / C) chunk writes,
\* the last callback carrying T.
C10_Chunking ==
    \A p \in TaskIds :
        cmd[p].op = "upload" =>
            LET S == cmd[p].start_offset
                T == cmd[p].total_size
            IN  /\ cmd[p].written <= T
                /\ (cmd[p].pc \in {"check", "write", "sync"}
                      \/ cmd[p].result \in {"ok", "cancelled"})
                     => cmd[p].written = Min(S + cmd[p].chunks * CHUNK_SIZE, T)
                /\ cmd[p].result = "ok"
                     => /\ cmd[p].chunks = Ceil(T - S, CHUNK_SIZE)
                        /\ cmd[p].written = T

\* C10: an upload of T bytes from offset S that is neither cancelled nor
\* failed writes ceil((T - S) / C) chunks, all of C bytes except possibly the
\* last, calls the callback once per chunk with the cumulative count (never
\* above T, T on the last call), and leaves the task Completed with
\* transferred == T.
C10_ChunkedUpload ==
    /\ C10_Chunking
    /\ \A p \in TaskIds :
        (CompletedUpload(p) /\ Quiet(p) /\ p \in DOMAIN transfers)
        => /\ transfers[p].status = "Completed"
           /\ transfers[p].transferred = cmd[p].total_size

\* The scenario of C10: 204800 bytes from offset 0 in 4 chunks.
C10_ScenarioReached ==
    \E p \in TaskIds :
        /\ CompletedUpload(p) /\ cmd[p].start_offset = 0
        /\ cmd[p].total_size = 204800 /\ cmd[p].chunks = 4
        /\ remote.content = LocalFile(204800)


\* The step is a call of cleanup_transfers (req names the session).
CleanupStep ==
    /\ req'.op = "cleanup_transfers"
    /\ req' # req \/ transfers' # transfers

\* C11: cleanup_transfers(s) removes from the task table exactly the tasks of
\* session s whose status is Completed or Cancelled; the tasks of s that are
\* Failed, InProgress or Pending, the tasks of every other session and the
\* token table are left as they are.
C11_CleanupSelective ==
    [][CleanupStep =>
         LET s == req'.session_id IN
         /\ \A t \in DOMAIN transfers :
               t \notin DOMAIN transfers'
                  <=> /\ transfers[t].session_id = s
                      /\ transfers[t].status \in {"Completed", "Cancelled"}
         /\ DOMAIN transfers' \subseteq DOMAIN transfers
         /\ \A t \in DOMAIN transfers' : transfers'[t] = transfers[t]
         /\ cancel_tokens' = cancel_tokens
      ]_vars

\* C11 witness: a cleanup of a session has removed a task and kept a Failed
\* task of that session.
C11_Witness ==
    /\ req.op = "cleanup_transfers"
    /\ \E t \in TaskIds : cmd[t].pc # "unused" /\ t \notin DOMAIN transfers
    /\ \E u \in DOMAIN transfers :
          transfers[u].session_id = req.session_id /\ transfers[u].status = "Failed"

\* C13: an SFTP operation issued for a session id that has no stored wrapper
\* (never opened, or closed) fails with "SFTP session not found".
C13_NoWrapperNotFound ==
    [][(req' # req /\ req'.op \in SftpOps /\ req'.session_id \notin sessions)
          => req'.result = "SFTP session not found"]_vars

\* C13 witness: the chunked upload write was refused for a missing wrapper
\* while the other session has one.
C13_Witness ==
    /\ req.op = "write_file_chunked_resume"
    /\ req.result = "SFTP session not found"
    /\ req.session_id \notin sessions
    /\ sessions # {}


\* C12: while a wrapper exists for a session id, no open call, later or
\* concurrent, stores another one: a wrapper that is present stays the
\* wrapper of its id until a close removes it.
C12_WrapperNeverReplaced ==
    [][\A s \in sessions :
          s \in sessions' => wrapper'[s] = wrapper[s]]_vars


\* C14: every session held in the registry has status Connected and owns a
\* transport handle and an interactive channel; a session that disconnect
\* has set to Disconnected is out of the registry, and when disconnect has
\* returned both its channel and its handle have been taken.
C14_RegistryConnected ==
    /\ \A s \in DOMAIN ssh_sessions :
          /\ ssh_sessions[s].status = "Connected"
          /\ ssh_sessions[s].handle
          /\ ssh_sessions[s].channel
    /\ dis.session.status = "Disconnected" =>
          /\ dis.session_id \notin DOMAIN ssh_sessions
          /\ ~dis.session.channel
          /\ dis.pc = "done" => ~dis.session.handle

\* C14 witness: disconnect has returned for one session while another one is
\* held in the registry.
C14_Witness ==
    /\ dis.pc = "done" /\ dis.session.status = "Disconnected"
    /\ ~dis.session.handle /\ ~dis.session.channel
    /\ DOMAIN ssh_sessions # {}


\* The step stores the session of connect invocation i in the registry.
InsertStep(i) == conn[i].pc = "store" /\ conn'[i].pc = "spawn"

\* The step is the removal of entry s by disconnect or by reconnect.
RemoveStep(s) ==
    \/ /\ dis.pc \in {"idle", "done"} /\ dis'.pc = "close_channel"
       /\ dis'.session_id = s
    \/ \E r \in RecIds :
         /\ rec[r].pc = "remove" /\ rec'[r].pc = "connect"
         /\ rec[r].session_id = s
         /\ s \in DOMAIN ssh_sessions

\* The step is a disconnect call for an id that has no entry.
DisconnectAbsentStep(s) ==
    /\ dis.pc \in {"idle", "done"} /\ dis'.pc = "done" /\ dis'.session_id = s
    /\ dis' # dis
    /\ s \notin DOMAIN ssh_sessions

\* C15: is_connected(id) is true from the store that precedes the return of
\* a successful connect until disconnect(id) or reconnect(id) removes the
\* entry, and false from then on; disconnect(id) returns success always, and
\* for an absent id it leaves the registry as it is.
C15_ConnectedUntilRemoved ==
    [][\A s \in SshIds :
         /\ InsertStep(ConnOf(s)) => is_connected(s)'
         /\ conn[ConnOf(s)].pc = "idle" => ~is_connected(s)
         /\ (is_connected(s) /\ ~is_connected(s)') => RemoveStep(s)
         /\ RemoveStep(s) => ~is_connected(s)'
         /\ (~is_connected(s) /\ is_connected(s)') => InsertStep(ConnOf(s))
         /\ DisconnectAbsentStep(s) => ssh_sessions' = ssh_sessions
         /\ dis'.pc = "done" => dis'.result = "ok"
      ]_vars

\* C15 witness: a connect returned its id, the entry was removed, and a
\* disconnect of the id, absent by then, has returned success.
C15_Witness ==
    \E s \in SshIds :
        /\ conn[ConnOf(s)].pc = "done"
        /\ ~is_connected(s)
        /\ dis.pc = "done" /\ dis.session_id = s
        /\ dis.session = NoSession /\ dis.result = "ok"


\* The step belongs to a disconnect call (dis names the session).
DisconnectStep == dis' # dis

\* C16: a disconnect of session A leaves every other session B as it is: its
\* registry entry (status, handle, channel), is_connected(B), its SFTP
\* wrapper, and the transfer tasks and tokens.
C16_DisconnectIsolated ==
    [][DisconnectStep =>
         \A B \in SshIds \ {dis'.session_id} :
            /\ (B \in DOMAIN ssh_sessions) = (B \in DOMAIN ssh_sessions')
            /\ B \in DOMAIN ssh_sessions => ssh_sessions'[B] = ssh_sessions[B]
            /\ is_connected(B)' = is_connected(B)
            /\ (B \in sessions) = (B \in sessions')
            /\ B \in sessions => wrapper'[B] = wrapper[B]
            /\ conn'[ConnOf(B)] = conn[ConnOf(B)]
            /\ transfers' = transfers
            /\ cancel_tokens' = cancel_tokens
      ]_vars

\* C16 witness: disconnect has returned for a session A while another session
\* B is connected, has an SFTP wrapper and a transfer task with its token.
C16_Witness ==
    \E B \in SshIds \ {dis.session_id} :
        /\ dis.pc = "done" /\ dis.session.status = "Disconnected"
        /\ is_connected(B)
        /\ B \in sessions
        /\ \E t \in DOMAIN transfers :
              transfers[t].session_id = B /\ t \in cancel_tokens


\* The operation is suspended on network I/O: disconnect on channel.close()
\* or handle.disconnect(), send_data on channel.data(), the chunked upload
\* on an SFTP open, write or sync.
DisconnectAwaitsIo == dis.pc \in {"close_channel", "close_handle"}
SendAwaitsIo == snd.pc = "io"
UploadAwaitsIo(p) == cmd[p].op = "upload" /\ cmd[p].pc \in {"open", "write", "sync"}

\* C17: no operation holds the guard of a map while it is suspended on
\* network or file I/O, so that a map operation of another session (here the
\* store of a newly connected session) never has to wait for that I/O.
C17_NoGuardAcrossIo ==
    /\ DisconnectAwaitsIo => ~SshWriteHeld
    /\ SendAwaitsIo => ~SshReadHeld
    /\ \A p \in TaskIds : UploadAwaitsIo(p) => ~HoldsSessionsRead(p)
    /\ \A i \in ConnIds :
          (conn[i].pc = "store" /\ (DisconnectAwaitsIo \/ SendAwaitsIo))
             => SshWritable


\* Steps of a reconnect call: its lookup, the store of the session it
\* connected, and its return.
ReconnectLookupStep(r) == rec[r].pc = "idle" /\ rec'[r].pc # "idle"
ReconnectStoreStep(r, i) ==
    /\ conn[i].via = r
    /\ conn[i].pc = "store"
    /\ conn'[i].pc = "spawn"
ReconnectReturnStep(r) == rec[r].pc # "done" /\ rec'[r].pc = "done"

\* C18: a successful reconnect(id) returns a new identifier different from
\* id, id is then absent from the registry, and the entry it stored carries
\* the connect parameters the session id was connected with; reconnect on an
\* id that is not in the registry fails with "Session not found" and leaves
\* the registry unchanged.
C18_Reconnect ==
    [][ \A r \in RecIds :
        /\ \A i \in ConnIds : ReconnectStoreStep(r, i) =>
             /\ SessionName(i) \in DOMAIN ssh_sessions'
             /\ ssh_sessions'[SessionName(i)].connect_request
                  = conn[ConnOf(rec[r].session_id)].request
             /\ rec[r].session_id \notin DOMAIN ssh_sessions'
        /\ (ReconnectReturnStep(r) /\ rec'[r].result \in SshIds) =>
             /\ rec'[r].result = SessionName(rec[r].slot)
             /\ rec'[r].result # rec'[r].session_id
             /\ rec'[r].session_id \notin DOMAIN ssh_sessions'
        /\ (ReconnectLookupStep(r)
              /\ rec'[r].session_id \notin DOMAIN ssh_sessions) =>
             /\ rec'[r].pc = "done"
             /\ rec'[r].result = "Session not found"
             /\ ssh_sessions' = ssh_sessions
        /\ (ReconnectReturnStep(r) /\ rec'[r].result = "Session not found") =>
             /\ rec'[r].session_id \notin DOMAIN ssh_sessions
             /\ ssh_sessions' = ssh_sessions
      ]_vars

\* A reconnect of a registered session has returned the identifier of the
\* session it stored, which carries the old session's connect parameters.
C18_Witness ==
    \E r \in RecIds :
      /\ rec[r].pc = "done"
      /\ rec[r].result \in SshIds
      /\ rec[r].result \in DOMAIN ssh_sessions
      /\ rec[r].result # rec[r].session_id
      /\ ssh_sessions[rec[r].result].connect_request
           = conn[ConnOf(rec[r].session_id)].request


\* The session of slot i was connected and returned to the caller.
Established(i) == conn[i].pc = "done" /\ conn[i].forwarder # "none"

\* A disconnect was issued for the session of slot i.
DisconnectIssued(i) == dis.pc # "idle" /\ dis.session_id = SessionName(i)

\* C19: once the channel or transport of an established session has ended
\* and no disconnect was issued for it, its outbound queue is closed (every
\* sender is dropped), which is what lets the forwarding task emit the
\* "disconnected" status.
C19_QueueClosesOnTransportEnd ==
    \A i \in ConnIds :
        (Established(i) /\ conn[i].transport = "down" /\ ~DisconnectIssued(i))
           => senders[i] = {}

\* The chunks of the data events emitted for slot i, in emission order.
RECURSIVE DataOf(_)
DataOf(evs) ==
    IF evs = <<>> THEN <<>>
    ELSE IF Head(evs)[1] = "data" THEN <<Head(evs)[2]>> \o DataOf(Tail(evs))
    ELSE DataOf(Tail(evs))

\* C20: for each session the data events emitted so far, followed by the
\* chunks still in its queue, are exactly the inbound chunks received on its
\* channel, in receipt order: none is lost, duplicated or reordered,
\* including those received before the forwarding task was spawned.
C20_DataInOrder ==
    \A i \in ConnIds : DataOf(ssh_events[i]) \o queue[i] = received[i]


\* C21: a connect that fails, whatever the reason (unsupported auth type,
\* missing credential, transport connect, authentication error or
\* rejection, channel, PTY or shell request), stores no session and leaves
\* the registry unchanged, then and later; a session is inserted only by a
\* call whose every handshake request has succeeded.
C21_FailedConnectStoresNothing ==
    [][ \A i \in ConnIds :
          /\ (conn[i].pc # "failed" /\ conn'[i].pc = "failed")
                => ssh_sessions' = ssh_sessions
          /\ conn'[i].error # "none" => SessionName(i) \notin DOMAIN ssh_sessions'
          /\ (SessionName(i) \notin DOMAIN ssh_sessions
                 /\ SessionName(i) \in DOMAIN ssh_sessions')
                => /\ conn[i].pc = "store"
                   /\ conn[i].error = "none"
                   /\ conn[i].transport = "up"
                   /\ conn[i].request.auth_type \in {"password", "key"}
                   /\ conn[i].request.credential
      ]_vars

\* A connect has failed at its last request (the shell) while another
\* session is in the registry.
C21_Witness ==
    \E i \in ConnIds :
        /\ conn[i].pc = "failed"
        /\ conn[i].error = "request_shell"
        /\ ssh_sessions # <<>>
        /\ SessionName(i) \notin DOMAIN ssh_sessions


\* The reorderings of a report.
Reorderings(order) ==
    {q \in [DOMAIN order -> {order[k] : k \in DOMAIN order}] :
        \A j, k \in DOMAIN q : j # k => q[j] # q[k]}

\* A list_dir call has returned a listing.
Listed ==
    /\ req.op = "list_dir"
    /\ req.session_id \in sessions
    /\ req.result # "io error"

\* Every directory is before every file, and each group ascends in the
\* lower-cased name.
DirsFirstByName(files) ==
    \A j, k \in DOMAIN files : j < k =>
        /\ ~(files[k].is_dir /\ ~files[j].is_dir)
        /\ files[j].is_dir = files[k].is_dir =>
              str_cmp(to_lowercase(files[j].name), to_lowercase(files[k].name))
                 # "Greater"

\* C22: list_dir returns every directory before every file, each group in
\* ascending order of the lower-cased name, and the same sequence whatever
\* the order in which the server reports the same entries.
C22_ListingOrder ==
    Listed =>
        /\ req.result \in Reorderings(remote.content)
        /\ DirsFirstByName(req.result)
        /\ \A q \in Reorderings(remote.content) : sort_by(q) = req.result


\* C23: decrypt of an encrypted text returns the plaintext under the
\* password it was encrypted with, and fails with InvalidPassword, returning
\* no plaintext, under every other password.
C23_RoundTrip ==
    crypto.decrypted # <<"none">> =>
        IF crypto.password2 = crypto.password
        THEN crypto.decrypted = Ok(crypto.plaintext)
        ELSE crypto.decrypted = Err("InvalidPassword")


\* Steps of a send_data call: its lookup; and the states in which its
\* channel.data() write is in flight.
SendLookupStep == snd.pc = "idle" /\ snd'.pc # "idle"
SendWriting == snd.pc = "io"

\* disconnect(s) has removed the entry of s and is closing, or has closed,
\* its channel.
DisconnectClosing(s) ==
    /\ dis.session_id = s
    /\ dis.session.status = "Disconnected"
    /\ dis.pc \in {"close_channel", "close_handle", "done"}

\* C24: a send_data that looks up an id whose entry disconnect has removed
\* fails with "Session not found", and no send_data write to a session's
\* channel is in flight once disconnect has removed the session and closes,
\* or has closed, that channel.
C24_SendAfterDisconnect ==
    [][ /\ (SendLookupStep /\ snd'.session_id \notin DOMAIN ssh_sessions)
             => (snd'.pc = "done" /\ snd'.result = "Session not found")
        /\ (SendLookupStep /\ DisconnectClosing(snd'.session_id))
             => (snd'.pc = "done" /\ snd'.result = "Session not found")
        /\ SendWriting' =>
             /\ ~(dis'.session_id = snd'.session_id
                    /\ dis'.session.status = "Disconnected"
                    /\ dis'.pc \in {"close_channel", "close_handle", "done"})
             /\ snd'.session_id \in DOMAIN ssh_sessions'
             /\ ssh_sessions'[snd'.session_id].channel
      ]_vars

\* disconnect has removed a session, closed its channel and returned, and a
\* send_data for that session has failed with "Session not found".
C24_Witness ==
    /\ snd.pc = "done"
    /\ snd.result = "Session not found"
    /\ DisconnectClosing(snd.session_id)
    /\ dis.pc = "done"
    /\ snd.session_id \notin DOMAIN ssh_sessions


\* C25: the transferred value stored for a task in the task table never
\* decreases, from the task's creation to its removal.
C25_TransferredMonotone ==
    [][ \A t \in DOMAIN transfers \cap DOMAIN transfers' :
          transfers[t].transferred <= transfers'[t].transferred ]_vars


\* C26: for a session established through a jump host, every inbound chunk
\* received on the bastion channel is on the queue the caller passed to
\* connect, or was emitted by the session's forwarding task as a data event.
C26_JumpHostDataQueued ==
    \A i \in ConnIds :
        conn[i].request.jump_host =>
            \A k \in DOMAIN received[i] :
                \/ \E j \in DOMAIN queue[i] : queue[i][j] = received[i][k]
                \/ \E j \in DOMAIN ssh_events[i] :
                      ssh_events[i][j] = <<"data", received[i][k]>>


\* The next step of an operation that is suspended with a guard.
UploadStep(p) ==
    \/ write_file_chunked_resume_open(p)
    \/ write_file_chunked_resume_check(p)
    \/ write_file_chunked_resume_write(p)
    \/ write_file_chunked_resume_sync(p)
DisconnectCloseStep == disconnect_close_channel \/ disconnect_close_handle

\* C27: the task table and the token table have separate guards (no step
\* takes both); no operation acquires a registry guard while it holds
\* another; a status update is never kept waiting by a cancellation check,
\* nor the check by an update; and every operation that holds a guard can
\* take its next step, so that no interleaving deadlocks on the guards.
C27_NoNestedLocks ==
    [][ /\ \A p \in TaskIds : UploadHolds(p) # {} => UploadAcquires(p) = {}
        /\ \A o \in OpenIds : OpenHolds(o) # {} => OpenAcquires(o) = {}
        /\ DisconnectHolds # {} => DisconnectAcquires = {}
        /\ (transfers' # transfers) => (cancel_tokens' = cancel_tokens)
        /\ \A p \in TaskIds :
              (UploadHolds(p) # {} /\ cmd'[p] # cmd[p]) =>
                  UNCHANGED <<transfers, cancel_tokens, sessions, ssh_sessions>>
        /\ spawned # {} => ENABLED spawned_update
        /\ \A c \in CancelIds :
              cancel[c].pc = "status" => ENABLED cancel_transfer_status(c)
        /\ \A p \in TaskIds :
              /\ (cmd[p].op = "upload" /\ cmd[p].pc = "inprogress")
                    => ENABLED sftp_upload_inprogress(p)
              /\ (cmd[p].op = "upload" /\ cmd[p].pc = "final")
                    => ENABLED sftp_upload_final(p)
              /\ UploadHolds(p) # {} => ENABLED UploadStep(p)
        /\ \A o \in OpenIds :
              OpenHolds(o) # {} => ENABLED open_sftp_channel_opened(o)
        /\ DisconnectHolds # {} => ENABLED DisconnectCloseStep
      ]_vars

\* An upload is at its cancellation check with the wrapper guard held,
\* while a spawned status update and the status update of a cancel are
\* pending.
C27_Witness ==
    \E p \in TaskIds, c \in CancelIds :
        /\ cmd[p].pc = "check"
        /\ UploadHolds(p) = {"wrappers"}
        /\ spawned # {}
        /\ cancel[c].pc = "status"


\* C28: every key of the cancellation-token table is the id of a task in
\* the transfer-task table.
C28_TokensHaveTasks == cancel_tokens \subseteq DOMAIN transfers


\* C29: an SFTP wrapper is stored under an id only while that id is in the
\* SSH session registry: once disconnect(id) or reconnect(id) has removed
\* the parent session, no wrapper is stored under id.
C29_WrapperHasParent == sessions \subseteq DOMAIN ssh_sessions


\* The sessions in the registry that reconnect calls for s stored.
Replacements(s) ==
    {i \in ConnIds : /\ conn[i].via # 0
                     /\ rec[conn[i].via].session_id = s
                     /\ SessionName(i) \in DOMAIN ssh_sessions}

\* C30: of the reconnect(id) calls for one id, at most one creates a new
\* session: the old session is replaced by at most one new registry entry,
\* and when one call has returned a new identifier no other call for the
\* same id returns one.
C30_OneReconnectPerSession ==
    /\ \A s \in SshIds : Cardinality(Replacements(s)) <= 1
    /\ \A r1, r2 \in RecIds :
         ( /\ r1 # r2
           /\ rec[r1].session_id = rec[r2].session_id
           /\ rec[r1].pc = "done"
           /\ rec[r2].pc = "done"
           /\ rec[r1].result \in SshIds )
         => rec[r2].result \notin SshIds

====
